---- MODULE Spec2Model ----
(***************************************************************************)
(* Model of the SMS command processor of sms-request-handler               *)
(* (src/commands/parser.rs): the grammar (parse and its sub-parsers), the  *)
(* per-command handlers with their repository and HTTP calls, and the      *)
(* replies they build.  Text is a sequence of one-character strings.       *)
(***************************************************************************)
EXTENDS Integers, Sequences, FiniteSets, TLC

\* ------------------------------------------------------------------ text

LowerChars ==
    << "a","b","c","d","e","f","g","h","i","j","k","l","m",
       "n","o","p","q","r","s","t","u","v","w","x","y","z" >>

UpperChars ==
    << "A","B","C","D","E","F","G","H","I","J","K","L","M",
       "N","O","P","Q","R","S","T","U","V","W","X","Y","Z" >>

DigitChars == << "0","1","2","3","4","5","6","7","8","9" >>

\* char::is_whitespace on the characters of the model's alphabet
IsWhitespace(c) == c \in {" ", "\t", "\n"}

IsLower(c) == \E i \in 1..26 : LowerChars[i] = c
IsUpper(c) == \E i \in 1..26 : UpperChars[i] = c
IsDigit(c) == \E i \in 1..10 : DigitChars[i] = c
DigitVal(c) == (CHOOSE i \in 1..10 : DigitChars[i] = c) - 1

\* char::is_alphanumeric on the characters of the model's alphabet
\* ("<sharp-s>" stands for the one character U+00DF, a lower-case letter,
\* and "<U+4E2D>" for one CJK ideograph, a letter without case)
IsAlphanumeric(c) == IsLower(c) \/ IsUpper(c) \/ IsDigit(c) \/ c \in {"<sharp-s>", "<U+4E2D>"}

ToUpperChar(c) ==
    IF IsLower(c) THEN UpperChars[CHOOSE i \in 1..26 : LowerChars[i] = c] ELSE c

ToLowerChar(c) ==
    IF IsUpper(c) THEN LowerChars[CHOOSE i \in 1..26 : UpperChars[i] = c] ELSE c

\* str::to_uppercase / str::to_lowercase.  The upper case of U+00DF is the
\* two characters SS; every other character of the alphabet maps to one.
RECURSIVE to_uppercase(_)
to_uppercase(t) ==
    IF t = <<>> THEN <<>>
    ELSE (IF Head(t) = "<sharp-s>" THEN <<"S","S">> ELSE <<ToUpperChar(Head(t))>>)
             \o to_uppercase(Tail(t))
to_lowercase(t) == [i \in 1..Len(t) |-> ToLowerChar(t[i])]

\* str::eq_ignore_ascii_case
eq_ignore_ascii_case(a, b) == to_lowercase(a) = to_lowercase(b)

\* str::starts_with
starts_with(t, pre) ==
    /\ Len(pre) <= Len(t)
    /\ SubSeq(t, 1, Len(pre)) = pre

\* str::contains
contains(t, pat) ==
    \E i \in 1..(Len(t) + 1) :
        /\ i + Len(pat) - 1 <= Len(t)
        /\ SubSeq(t, i, i + Len(pat) - 1) = pat

\* str::trim
RECURSIVE TrimStart(_)
TrimStart(t) ==
    IF t # <<>> /\ IsWhitespace(Head(t)) THEN TrimStart(Tail(t)) ELSE t

RECURSIVE TrimEnd(_)
TrimEnd(t) ==
    IF t # <<>> /\ IsWhitespace(t[Len(t)])
    THEN TrimEnd(SubSeq(t, 1, Len(t) - 1))
    ELSE t

trim(t) == TrimEnd(TrimStart(t))

\* str::split_whitespace, collected: the maximal runs of non-whitespace
RECURSIVE SplitFrom(_, _, _)
SplitFrom(t, cur, acc) ==
    IF t = <<>>
    THEN IF cur = <<>> THEN acc ELSE Append(acc, cur)
    ELSE IF IsWhitespace(Head(t))
         THEN SplitFrom(Tail(t), <<>>, IF cur = <<>> THEN acc ELSE Append(acc, cur))
         ELSE SplitFrom(Tail(t), Append(cur, Head(t)), acc)

split_whitespace(t) == SplitFrom(t, <<>>, <<>>)

\* [&str]::join(" ")
RECURSIVE JoinSpace(_)
JoinSpace(parts) ==
    IF parts = <<>> THEN <<>>
    ELSE IF Len(parts) = 1 THEN parts[1]
    ELSE parts[1] \o <<" ">> \o JoinSpace(Tail(parts))

\* parts[k..]
From(parts, k) == SubSeq(parts, k, Len(parts))

\* text.chars().take(n)
Take(t, n) == SubSeq(t, 1, IF Len(t) < n THEN Len(t) ELSE n)

\* Option<T>
None == <<>>
Some(x) == <<x>>
IsSome(o) == o # <<>>
Unwrap(o) == o[1]

\* ------------------------------------------------------------------- f64
\* An f64 as the decimal it was parsed from: mant * 10^(-scale), in normal
\* form (no trailing zero digit after the point), with its sign kept apart so
\* that -0 stays distinct from 0, or an infinity, or NaN.

F64(cls, neg, mant, scale) == [cls |-> cls, neg |-> neg, mant |-> mant, scale |-> scale]

RECURSIVE Pow10(_)
Pow10(n) == IF n <= 0 THEN 1 ELSE 10 * Pow10(n - 1)

RECURSIVE Normal(_, _)
Normal(mant, scale) ==
    IF mant = 0 THEN <<0, 0>>
    ELSE IF scale < 0 THEN <<mant * Pow10(0 - scale), 0>>
    ELSE IF scale > 0 /\ mant % 10 = 0 THEN Normal(mant \div 10, scale - 1)
    ELSE <<mant, scale>>

\* the longest prefix of ASCII digits
RECURSIVE DigitPrefixLen(_)
DigitPrefixLen(t) ==
    IF t # <<>> /\ IsDigit(Head(t)) THEN 1 + DigitPrefixLen(Tail(t)) ELSE 0

RECURSIVE DigitsToNat(_, _)
DigitsToNat(t, acc) ==
    IF t = <<>> THEN acc ELSE DigitsToNat(Tail(t), 10 * acc + DigitVal(Head(t)))

ParseErr == [ok |-> FALSE, v |-> F64("nan", FALSE, 0, 0)]
ParseOk(v) == [ok |-> TRUE, v |-> v]

\* the exponent part after the mantissa: "" | (e|E)[+|-]digits+
ExpPart(t) ==
    IF t = <<>> THEN [ok |-> TRUE, e |-> 0]
    ELSE IF Head(t) \notin {"e", "E"} THEN [ok |-> FALSE, e |-> 0]
    ELSE LET r   == Tail(t)
             sg  == r # <<>> /\ Head(r) \in {"+", "-"}
             ds  == IF sg THEN Tail(r) ELSE r
         IN  IF ds = <<>> \/ DigitPrefixLen(ds) # Len(ds)
             THEN [ok |-> FALSE, e |-> 0]
             ELSE [ok |-> TRUE,
                   e  |-> IF sg /\ Head(r) = "-"
                          THEN 0 - DigitsToNat(ds, 0)
                          ELSE DigitsToNat(ds, 0)]

\* <f64 as FromStr>::from_str
ParseF64(t) ==
    IF t = <<>> THEN ParseErr
    ELSE
    LET sg   == Head(t) \in {"+", "-"}
        neg  == Head(t) = "-"
        s    == IF sg THEN Tail(t) ELSE t
        ni   == DigitPrefixLen(s)
        ints == SubSeq(s, 1, ni)
        r1   == SubSeq(s, ni + 1, Len(s))
        dot  == r1 # <<>> /\ Head(r1) = "."
        r1b  == IF dot THEN Tail(r1) ELSE r1
        nf   == IF dot THEN DigitPrefixLen(r1b) ELSE 0
        frac == SubSeq(r1b, 1, nf)
        r2   == SubSeq(r1b, nf + 1, Len(r1b))
        ex   == ExpPart(r2)
        low  == to_lowercase(s)
    IN  IF s = <<>> THEN ParseErr
        ELSE IF ni + nf > 0
        THEN IF ex.ok
             THEN LET n == Normal(DigitsToNat(ints \o frac, 0), nf - ex.e)
                  IN  ParseOk(F64("fin", neg, n[1], n[2]))
             ELSE ParseErr
        ELSE IF low = <<"n","a","n">> THEN ParseOk(F64("nan", neg, 0, 0))
        ELSE IF low \in { <<"i","n","f">>, <<"i","n","f","i","n","i","t","y">> }
             THEN ParseOk(F64("inf", neg, 0, 0))
        ELSE ParseErr

RECURSIVE NatToText(_)
NatToText(n) ==
    IF n < 10 THEN << DigitChars[n + 1] >>
    ELSE Append(NatToText(n \div 10), DigitChars[(n % 10) + 1])

RECURSIVE Zeros(_)
Zeros(n) == IF n <= 0 THEN <<>> ELSE <<"0">> \o Zeros(n - 1)

SignText(x) == IF x.neg THEN <<"-">> ELSE <<>>

\* <f64 as Display>::fmt, which f64::to_string and format!("{}") use
DisplayF64(x) ==
    IF x.cls = "nan" THEN <<"N","a","N">>
    ELSE IF x.cls = "inf" THEN SignText(x) \o <<"i","n","f">>
    ELSE IF x.scale = 0 THEN SignText(x) \o NatToText(x.mant)
    ELSE LET d  == NatToText(x.mant)
             pd == Zeros(x.scale + 1 - Len(d)) \o d
             k  == Len(pd) - x.scale
         IN  SignText(x) \o SubSeq(pd, 1, k) \o <<".">> \o SubSeq(pd, k + 1, Len(pd))

\* format!("{:.prec$}"): rounded to prec decimals, ties to even
DisplayFixed(x, prec) ==
    IF x.cls # "fin" THEN DisplayF64(x)
    ELSE LET cutp == Pow10(x.scale - prec)
             q    == IF x.scale <= prec THEN x.mant * Pow10(prec - x.scale)
                     ELSE x.mant \div cutp
             r2   == IF x.scale <= prec THEN 0 ELSE 2 * (x.mant % cutp)
             up   == r2 > cutp \/ (r2 = cutp /\ q % 2 = 1)
             n    == IF up THEN q + 1 ELSE q
             fr   == NatToText(n % Pow10(prec))
         IN  SignText(x) \o NatToText(n \div Pow10(prec))
             \o (IF prec = 0 THEN <<>> ELSE <<".">> \o Zeros(prec - Len(fr)) \o fr)

\* amount > 0.0 (false for NaN)
IsPositive(x) ==
    \/ x.cls = "inf" /\ ~x.neg
    \/ x.cls = "fin" /\ ~x.neg /\ x.mant > 0

\* --------------------------------------------------------------- Command
\* enum Command: one record per variant, tagged by kind.

Help == [kind |-> "Help"]
Join(ens_name) == [kind |-> "Join", ens_name |-> ens_name]
Balance == [kind |-> "Balance"]
Pin(new_pin) == [kind |-> "Pin", new_pin |-> new_pin]
Send(amount, token, recipient) ==
    [kind |-> "Send", amount |-> amount, token |-> token, recipient |-> recipient]
Deposit == [kind |-> "Deposit"]
History == [kind |-> "History"]
Redeem(code) == [kind |-> "Redeem", code |-> code]
Swap(amount, token) == [kind |-> "Swap", amount |-> amount, token |-> token]
Cashout(amount, token) == [kind |-> "Cashout", amount |-> amount, token |-> token]
Buy(amount) == [kind |-> "Buy", amount |-> amount]
Bridge(amount, token, from_chain, to_chain) ==
    [kind |-> "Bridge", amount |-> amount, token |-> token,
     from_chain |-> from_chain, to_chain |-> to_chain]
Save(name, phone) == [kind |-> "Save", name |-> name, phone |-> phone]
Contacts == [kind |-> "Contacts"]
SwitchChain(chain) == [kind |-> "SwitchChain", chain |-> chain]
Unknown(text) == [kind |-> "Unknown", text |-> text]

\* ---------------------------------------------------------- usage texts
\* ("<euro>" stands for the one character U+20AC)

UsageRedeem ==
    << "U","s","a","g","e",":"," ","R","E","D","E","E","M"," ","<","c","o","d","e",">" >>

UsageChain ==
    << "U","s","a","g","e",":"," ","C","H","A","I","N"," ","<","p","o","l","y","g","o","n","|","b",
       "a","s","e","|","e","t","h","|","a","r","b",">" >>

UsageSave ==
    << "U","s","a","g","e",":"," ","S","A","V","E"," ","<","n","a","m","e",">"," ","<","p","h","o",
       "n","e",">" >>

UsageSend ==
    << "U","s","e",":"," ","S","E","N","D"," ","<","a","m","o","u","n","t",">"," ","<","t","o","k",
       "e","n",">"," ","<","r","e","c","i","p","i","e","n","t",">","\n","E","x","a","m","p","l","e",
       ":"," ","S","E","N","D"," ","1","0"," ","T","X","T","C"," ","s","w","a","r","n","i","m",".",
       "t","t","c","i","p",".","e","t","h" >>

InvalidAmount ==
    << "I","n","v","a","l","i","d"," ","a","m","o","u","n","t" >>

MissingRecipient ==
    << "M","i","s","s","i","n","g"," ","r","e","c","i","p","i","e","n","t",".","\n","E","x","a","m",
       "p","l","e",":"," ","S","E","N","D"," ","1","0"," ","T","X","T","C"," ","s","w","a","r","n",
       "i","m",".","t","t","c","i","p",".","e","t","h" >>

UsageBridge ==
    << "U","s","a","g","e",":"," ","B","R","I","D","G","E"," ","<","a","m","o","u","n","t",">"," ",
       "<","t","o","k","e","n",">"," ","F","R","O","M"," ","<","c","h","a","i","n",">"," ","T","O",
       " ","<","c","h","a","i","n",">","\n","E","x","a","m","p","l","e",":"," ","B","R","I","D","G",
       "E"," ","1","0"," ","U","S","D","C"," ","F","R","O","M"," ","P","O","L","Y","G","O","N"," ",
       "T","O"," ","B","A","S","E" >>

UsageBridgeShort ==
    << "U","s","a","g","e",":"," ","B","R","I","D","G","E"," ","<","a","m","o","u","n","t",">"," ",
       "<","t","o","k","e","n",">"," ","F","R","O","M"," ","<","c","h","a","i","n",">"," ","T","O",
       " ","<","c","h","a","i","n",">" >>

UsageBuy ==
    << "U","s","a","g","e",":"," ","B","U","Y"," ","<","a","m","o","u","n","t",">","\n","E","x","a",
       "m","p","l","e",":"," ","B","U","Y"," ","1","0"," ","(","b","u","y","s"," ","<euro>","1","0",
       " ","o","f"," ","T","X","T","C"," ","w","i","t","h"," ","a","i","r","t","i","m","e",")" >>

UsageSwap ==
    << "U","s","a","g","e",":"," ","S","W","A","P"," ","<","a","m","o","u","n","t",">"," ","T","X",
       "T","C" >>

UsageCashout ==
    << "U","s","a","g","e",":"," ","C","A","S","H","O","U","T"," ","<","a","m","o","u","n","t",">",
       " ","T","X","T","C","\n","O","r",":"," ","C","A","S","H","O","U","T"," ","<","a","m","o","u",
       "n","t",">"," ","E","T","H" >>

\* keyword literals of the sub-grammars
KwTO == <<"T","O">>
KwFROM == <<"F","R","O","M">>

\* --------------------------------------------------------------- grammar

\* parse_save(parts)
parse_save(parts) ==
    IF Len(parts) < 3 THEN Unknown(UsageSave)
    ELSE Save(parts[2], JoinSpace(From(parts, 3)))

\* parse_send with three of its choices left open: whether the amount is
\* looked at before the words are counted, whether a TO is skipped, and
\* whether the recipient is kept as typed
parse_send_variant(parts, amount_first, skip_to, as_typed) ==
    IF amount_first /\ Len(parts) >= 2 /\ ~ParseF64(parts[2]).ok THEN Unknown(InvalidAmount)
    ELSE IF Len(parts) < 4 THEN Unknown(UsageSend)
    ELSE LET amt == ParseF64(parts[2])
             typed ==
                 IF skip_to /\ Len(parts) >= 5 /\ eq_ignore_ascii_case(parts[4], KwTO)
                 THEN JoinSpace(From(parts, 5))
                 ELSE JoinSpace(From(parts, 4))
             recipient == IF as_typed THEN typed ELSE to_uppercase(typed)
         IN  IF ~amt.ok THEN Unknown(InvalidAmount)
             ELSE IF recipient = <<>> THEN Unknown(MissingRecipient)
             ELSE Send(amt.v, parts[3], recipient)

\* a variant that looks at the amount before it counts the words
parse_send_amount_first(parts) == parse_send_variant(parts, TRUE, TRUE, TRUE)

\* a variant that puts the recipient in upper case
parse_send_upper_recipient(parts) == parse_send_variant(parts, FALSE, TRUE, FALSE)

\* parse_send(parts): SEND <amount> <token> [TO] <recipient>
parse_send(parts) ==
    IF Len(parts) < 4 THEN Unknown(UsageSend)
    ELSE LET amt == ParseF64(parts[2])
             recipient ==
                 IF Len(parts) >= 5 /\ eq_ignore_ascii_case(parts[4], KwTO)
                 THEN JoinSpace(From(parts, 5))
                 ELSE JoinSpace(From(parts, 4))
         IN  IF ~amt.ok THEN Unknown(InvalidAmount)
             ELSE IF recipient = <<>> THEN Unknown(MissingRecipient)
             ELSE Send(amt.v, parts[3], recipient)

\* a variant that takes the bare form before it looks for FROM and TO
parse_bridge_bare_first(parts) ==
    IF Len(parts) < 5 THEN Unknown(UsageBridge)
    ELSE LET amt == ParseF64(parts[2])
         IN  IF ~amt.ok THEN Unknown(InvalidAmount)
             ELSE Bridge(amt.v, parts[3], parts[4], parts[5])

\* parse_bridge(parts): BRIDGE <amount> <token> [FROM] <chain> [TO] <chain>
parse_bridge(parts) ==
    IF Len(parts) < 5 THEN Unknown(UsageBridge)
    ELSE LET amt == ParseF64(parts[2])
         IN  IF ~amt.ok THEN Unknown(InvalidAmount)
             ELSE IF Len(parts) >= 7 /\ parts[4] = KwFROM /\ parts[6] = KwTO
                  THEN Bridge(amt.v, parts[3], parts[5], parts[7])
             ELSE IF Len(parts) >= 6 /\ parts[4] = KwFROM
                  THEN Bridge(amt.v, parts[3], parts[5], parts[6])
             ELSE IF Len(parts) >= 5
                  THEN Bridge(amt.v, parts[3], parts[4], parts[5])
             ELSE Unknown(UsageBridgeShort)

\* parse_buy(parts): BUY <amount>
parse_buy(parts) ==
    IF Len(parts) < 2 THEN Unknown(UsageBuy)
    ELSE LET amt == ParseF64(parts[2])
         IN  IF ~amt.ok THEN Unknown(InvalidAmount) ELSE Buy(amt.v)

\* parse_swap(parts): SWAP <amount> <token>
parse_swap(parts) ==
    IF Len(parts) < 3 THEN Unknown(UsageSwap)
    ELSE LET amt == ParseF64(parts[2])
         IN  IF ~amt.ok THEN Unknown(InvalidAmount) ELSE Swap(amt.v, parts[3])

\* parse_cashout(parts): CASHOUT <amount> <token>
parse_cashout(parts) ==
    IF Len(parts) < 3 THEN Unknown(UsageCashout)
    ELSE LET amt == ParseF64(parts[2])
         IN  IF ~amt.ok THEN Unknown(InvalidAmount) ELSE Cashout(amt.v, parts[3])

\* parts.get(i) of a 0-based index i, as an Option
Get(parts, i) == IF i + 1 <= Len(parts) THEN Some(parts[i + 1]) ELSE None

\* parse with two of its choices left open: whether BAL and START are
\* keywords, and what an empty text gives
parse_variant(body, synonyms, empty) ==
    LET original == trim(body)
        text == to_uppercase(original)
        parts == split_whitespace(text)
        original_parts == split_whitespace(original)
    IN  IF parts = <<>> THEN empty
        ELSE LET kw == IF ~synonyms /\ parts[1] \in { <<"B","A","L">>, <<"S","T","A","R","T">> }
                       THEN <<"#">> \o parts[1] ELSE parts[1] IN
        IF kw \in { <<"C","O","M","M","A","N","D","S">>, <<"M","E","N","U">>, <<"?">> } THEN Help
        ELSE IF kw \in { <<"J","O","I","N">>, <<"S","T","A","R","T">>, <<"R","E","G","I","S","T","E","R">> }
             THEN Join(IF IsSome(Get(parts, 1)) THEN Some(to_lowercase(parts[2])) ELSE None)
        ELSE IF kw \in { <<"B","A","L","A","N","C","E">>, <<"B","A","L">> } THEN Balance
        ELSE IF kw = <<"P","I","N">> THEN Pin(Get(parts, 1))
        ELSE IF kw = <<"S","E","N","D">> THEN parse_send(original_parts)
        ELSE IF kw \in { <<"D","E","P","O","S","I","T">>, <<"R","E","C","E","I","V","E">> } THEN Deposit
        ELSE IF kw \in { <<"H","I","S","T","O","R","Y">>, <<"T","R","A","N","S","A","C","T","I","O","N","S">>, <<"T","X","S">> } THEN History
        ELSE IF kw \in { <<"R","E","D","E","E","M">>, <<"V","O","U","C","H","E","R">>, <<"C","O","D","E">> }
             THEN IF Len(parts) < 2 THEN Unknown(UsageRedeem) ELSE Redeem(parts[2])
        ELSE IF kw \in { <<"S","W","A","P">>, <<"E","X","C","H","A","N","G","E">> } THEN parse_swap(parts)
        ELSE IF kw \in { <<"C","A","S","H","O","U","T">>, <<"C","A","S","H">> } THEN parse_cashout(parts)
        ELSE IF kw \in { <<"B","U","Y">>, <<"T","O","P","U","P">>, <<"P","U","R","C","H","A","S","E">> } THEN parse_buy(parts)
        ELSE IF kw \in { <<"B","R","I","D","G","E">>, <<"C","R","O","S","S">> } THEN parse_bridge(parts)
        ELSE IF kw \in { <<"S","A","V","E">>, <<"A","D","D">> } THEN parse_save(parts)
        ELSE IF kw \in { <<"C","O","N","T","A","C","T","S">>, <<"B","O","O","K">> } THEN Contacts
        ELSE IF kw \in { <<"C","H","A","I","N">>, <<"N","E","T","W","O","R","K">> }
             THEN IF Len(parts) < 2 THEN Unknown(UsageChain) ELSE SwitchChain(parts[2])
        ELSE Unknown(text)

\* a variant in which BAL and START are not keywords
parse_without_synonyms(body) == parse_variant(body, FALSE, Unknown(<<>>))

\* a variant that takes an empty text for a request for help
parse_empty_as_help(body) == parse_variant(body, TRUE, Help)

\* CommandProcessor::parse
parse(body) ==
    LET original == trim(body)
        text == to_uppercase(original)
        parts == split_whitespace(text)
        original_parts == split_whitespace(original)
    IN  IF parts = <<>> THEN Unknown(<<>>)
        ELSE LET kw == parts[1] IN
        IF kw \in { <<"C","O","M","M","A","N","D","S">>, <<"M","E","N","U">>, <<"?">> } THEN Help
        ELSE IF kw \in { <<"J","O","I","N">>, <<"S","T","A","R","T">>, <<"R","E","G","I","S","T","E","R">> }
             THEN Join(IF IsSome(Get(parts, 1)) THEN Some(to_lowercase(parts[2])) ELSE None)
        ELSE IF kw \in { <<"B","A","L","A","N","C","E">>, <<"B","A","L">> } THEN Balance
        ELSE IF kw = <<"P","I","N">> THEN Pin(Get(parts, 1))
        ELSE IF kw = <<"S","E","N","D">> THEN parse_send(original_parts)
        ELSE IF kw \in { <<"D","E","P","O","S","I","T">>, <<"R","E","C","E","I","V","E">> } THEN Deposit
        ELSE IF kw \in { <<"H","I","S","T","O","R","Y">>, <<"T","R","A","N","S","A","C","T","I","O","N","S">>, <<"T","X","S">> } THEN History
        ELSE IF kw \in { <<"R","E","D","E","E","M">>, <<"V","O","U","C","H","E","R">>, <<"C","O","D","E">> }
             THEN IF Len(parts) < 2 THEN Unknown(UsageRedeem) ELSE Redeem(parts[2])
        ELSE IF kw \in { <<"S","W","A","P">>, <<"E","X","C","H","A","N","G","E">> } THEN parse_swap(parts)
        ELSE IF kw \in { <<"C","A","S","H","O","U","T">>, <<"C","A","S","H">> } THEN parse_cashout(parts)
        ELSE IF kw \in { <<"B","U","Y">>, <<"T","O","P","U","P">>, <<"P","U","R","C","H","A","S","E">> } THEN parse_buy(parts)
        ELSE IF kw \in { <<"B","R","I","D","G","E">>, <<"C","R","O","S","S">> } THEN parse_bridge(parts)
        ELSE IF kw \in { <<"S","A","V","E">>, <<"A","D","D">> } THEN parse_save(parts)
        ELSE IF kw \in { <<"C","O","N","T","A","C","T","S">>, <<"B","O","O","K">> } THEN Contacts
        ELSE IF kw \in { <<"C","H","A","I","N">>, <<"N","E","T","W","O","R","K">> }
             THEN IF Len(parts) < 2 THEN Unknown(UsageChain) ELSE SwitchChain(parts[2])
        ELSE Unknown(text)

\* ------------------------------------------------------------ byte views
\* str::len and str slicing count UTF-8 bytes: one per ASCII character,
\* two for U+00DF, three for U+20AC and for U+4E2D.
ByteLen(c) == IF c \in {"<euro>", "<U+4E2D>"} THEN 3 ELSE IF c = "<sharp-s>" THEN 2 ELSE 1

RECURSIVE len(_)
len(t) == IF t = <<>> THEN 0 ELSE ByteLen(Head(t)) + len(Tail(t))

\* whether byte offset n is a character boundary of t (str::is_char_boundary)
RECURSIVE is_char_boundary(_, _)
is_char_boundary(t, n) ==
    IF n = 0 THEN TRUE
    ELSE IF t = <<>> \/ n < 0 THEN FALSE
    ELSE is_char_boundary(Tail(t), n - ByteLen(Head(t)))

\* the characters of &t[..n], for a boundary n
RECURSIVE SliceTo(_, _)
SliceTo(t, n) ==
    IF n <= 0 \/ t = <<>> THEN <<>>
    ELSE <<Head(t)>> \o SliceTo(Tail(t), n - ByteLen(Head(t)))

Min(a, b) == IF a < b THEN a ELSE b

\* --------------------------------------------------------------- replies
\* A reply is the format string of the format!/to_string that built it and
\* the texts substituted for its {} places, in order.
Reply(tmpl, args) == [tmpl |-> tmpl, args |-> args]
Fixed(tmpl) == Reply(tmpl, <<>>)

NoWallet == Fixed("No wallet. Reply JOIN first.")
ErrorTryLater == Fixed("Error. Try later.")
DbOffline == Fixed("DB offline. Try later.")
NetworkError == Fixed("Network error. Try later.")
ErrorProcessing == Fixed("Error processing response.")

\* ------------------------------------------------------------ the world

Procs == {1, 2}

\* sender and recipient phones
Phone1 == <<"+","1">>
Phone2 == <<"+","2">>
Phones == {Phone1, Phone2}

\* UserWallet::address_string of the n-th wallet made: "0x" and 40 hex digits
WalletAddress(n) == <<"0","x">> \o Zeros(39) \o NatToText(n)

\* hex::encode(wallet.private_key_bytes()) of the n-th wallet made
PrivateKey(n) == <<"k","e","y">> \o NatToText(n)

\* a row of the users table
User(phone, wallet_address, key) ==
    [phone |-> phone, wallet_address |-> wallet_address,
     encrypted_private_key |-> key, ens_name |-> None, pin_hash |-> None]

\* a row of the address book
Contact(owner, name, contact_phone, wallet_address) ==
    [owner_phone |-> owner, name |-> name,
     contact_phone |-> contact_phone, wallet_address |-> wallet_address]

\* ---------------------------------------------------------- repositories
\* crate::db is not part of the sources at hand; its operations follow the
\* collaborator contracts: a table is a sequence of rows, a call either
\* fails as a whole (db_ok = FALSE) or answers from the table.

\* UserRepository::find_by_phone: Ok(Some(row)) | Ok(None) | Err
find_by_phone(tbl, phone, db_ok) ==
    LET HasPhone(u) == u.phone = phone
        hit == SelectSeq(tbl, HasPhone)
    IN  [ok |-> db_ok, row |-> IF db_ok /\ hit # <<>> THEN Some(hit[1]) ELSE None]

\* UserRepository::create: the phone is unique, a second row is rejected
create(tbl, phone, wallet_address, key, db_ok) ==
    LET fresh == \A i \in 1..Len(tbl) : tbl[i].phone # phone
    IN  IF db_ok /\ fresh
        THEN [ok |-> TRUE, res |-> "ok",
              tbl |-> Append(tbl, User(phone, wallet_address, key))]
        ELSE [ok |-> FALSE, res |-> IF db_ok THEN "dup" ELSE "err", tbl |-> tbl]

\* UserRepository::update_ens_name
update_ens_name(tbl, phone, ens, db_ok) ==
    [ok |-> db_ok,
     tbl |-> IF db_ok
             THEN [i \in 1..Len(tbl) |->
                     IF tbl[i].phone = phone
                     THEN [tbl[i] EXCEPT !.ens_name = Some(ens)] ELSE tbl[i]]
             ELSE tbl]

\* UserRepository::update_pin
update_pin(tbl, phone, pin_hash, db_ok) ==
    [ok |-> db_ok,
     tbl |-> IF db_ok
             THEN [i \in 1..Len(tbl) |->
                     IF tbl[i].phone = phone
                     THEN [tbl[i] EXCEPT !.pin_hash = Some(pin_hash)] ELSE tbl[i]]
             ELSE tbl]

\* AddressBookRepository::add_contact
add_contact(tbl, owner, name, contact_phone, wallet_address, db_ok) ==
    [ok |-> db_ok,
     tbl |-> IF db_ok
             THEN Append(tbl, Contact(owner, name, contact_phone, wallet_address))
             ELSE tbl]

\* AddressBookRepository::find_by_name: the owner's contacts of that name
find_by_name(tbl, owner, name, db_ok) ==
    LET Named(c) == c.owner_phone = owner /\ c.name = name
    IN  [ok |-> db_ok, rows |-> IF db_ok THEN SelectSeq(tbl, Named) ELSE <<>>]

\* AddressBookRepository::list_all
list_all(tbl, owner, db_ok) ==
    LET Owned(c) == c.owner_phone = owner
    IN  [ok |-> db_ok, rows |-> IF db_ok THEN SelectSeq(tbl, Owned) ELSE <<>>]

\* DepositRepository::get_recent(phone, limit)
get_recent(tbl, phone, limit, db_ok) ==
    LET Mine(d) == d.phone = phone
        mine == SelectSeq(tbl, Mine)
    IN  [ok |-> db_ok,
         rows |-> IF db_ok THEN SubSeq(mine, 1, Min(limit, Len(mine))) ELSE <<>>]

\* a row of the vouchers table
Voucher(code, redeemed_by) == [code |-> code, redeemed_by |-> redeemed_by]

\* VoucherRepository::get_by_code: Ok(Some(row)) | Ok(None) | Err
get_by_code(tbl, code, db_ok) ==
    LET HasCode(v) == v.code = code
        hit == SelectSeq(tbl, HasCode)
    IN  [ok |-> db_ok, row |-> IF db_ok /\ hit # <<>> THEN Some(hit[1]) ELSE None]

\* VoucherRepository::redeem(code, phone): the row of the code is marked
redeem(tbl, code, phone, db_ok) ==
    [ok |-> db_ok,
     tbl |-> IF db_ok
             THEN [i \in 1..Len(tbl) |->
                      IF tbl[i].code = code THEN Voucher(code, Some(phone)) ELSE tbl[i]]
             ELSE tbl]

\* DepositRepository::record_deposit(user, tx_hash, amount, token), the
\* amount kept as the text it is passed as
record_deposit(tbl, phone, amount, db_ok) ==
    [ok |-> db_ok,
     tbl |-> IF db_ok
             THEN Append(tbl, [phone |-> phone, amount |-> amount,
                               source |-> <<"v","o","u","c","h","e","r">>])
             ELSE tbl]

\* ---------------------------------------------------------- HTTP replies
\* What one request can come back as: a transport error, no answer at all
\* (hang), or a response with a status and a body that is JSON or not.

JsonNull ==
    [success |-> None, error |-> None, available |-> None, reason |-> None,
     address |-> None, wallet_address |-> None, route |-> None,
     txtc |-> None, eth |-> None, tokenAmount |-> None, ethAmount |-> None]

NetErr == [net |-> "err", status_ok |-> FALSE, json |-> None]
Hang == [net |-> "hang", status_ok |-> FALSE, json |-> None]
BadBody == [net |-> "ok", status_ok |-> TRUE, json |-> None]
Http(status_ok, json) == [net |-> "ok", status_ok |-> status_ok, json |-> Some(json)]

\* reqwest: send().await of a request built with or without .timeout(d).
\* With a timeout a silent server is a transport error; without one the
\* future never completes.
Await(resp, has_timeout) ==
    IF resp.net = "hang"
    THEN IF has_timeout THEN "err" ELSE "never"
    ELSE resp.net

\* value["k"].as_bool().unwrap_or(false)
AsBoolOrFalse(o) == IsSome(o) /\ Unwrap(o)

\* value["k"].as_str().unwrap_or(d)
AsStrOr(o, d) == IF IsSome(o) THEN Unwrap(o) ELSE d

\* error texts a backend may send
ErrInsufficient == <<"i","n","s","u","f","f","i","c","i","e","n","t"," ","f","u","n","d","s">>
ErrAlreadyRedeemed == <<"a","l","r","e","a","d","y"," ","r","e","d","e","e","m","e","d">>
ErrNotFound == <<"v","o","u","c","h","e","r"," ","n","o","t"," ","f","o","u","n","d">>
ErrSlippage == <<"s","l","i","p","p","a","g","e"," ","t","o","o"," ","h","i","g","h">>
ErrOther == <<"b","o","o","m">>
ErrRpc == <<"r","p","c"," ","d","o","w","n">>
ErrorTexts == {ErrInsufficient, ErrAlreadyRedeemed, ErrNotFound, ErrSlippage, ErrOther, ErrRpc}

Failures ==
    { Http(TRUE, [JsonNull EXCEPT !.success = Some(FALSE), !.error = Some(e)]) :
        e \in ErrorTexts }
    \cup { Http(TRUE, [JsonNull EXCEPT !.success = Some(FALSE)]), Http(TRUE, JsonNull) }

Transport == {NetErr, Hang, BadBody}

\* ----------------------------------------------------------------- state

VARIABLES
    user_repo,          \* self.user_repo.is_some()
    address_book_repo,  \* self.address_book_repo.is_some()
    deposit_repo,       \* self.deposit_repo.is_some()
    users,              \* the users table
    contacts,           \* the address book table
    deposits,           \* the deposits table
    vouchers,           \* the vouchers table
    nextWallet,         \* how many wallets UserWallet::create_new has made
    received,           \* how many messages have come in
    pc,                 \* per handler: where its future stands
    msg,                \* per handler: the (from, body) it handles
    cmd,                \* per handler: the parsed Command
    loc,                \* per handler: its local variables
    reply,              \* per handler: the String it returned, if it has
    calls,              \* per handler: the collaborator calls it has made
    outbox              \* the handled messages, in the order they ended

vars == << user_repo, address_book_repo, deposit_repo, users, contacts, deposits,
           vouchers, nextWallet, received, pc, msg, cmd, loc, reply, calls, outbox >>

config == << user_repo, address_book_repo, deposit_repo >>
tables == << users, contacts, deposits, vouchers >>

\* how many messages one run takes in
MaxMsgs == 2

NoMsg == [from |-> <<>>, body |-> <<>>, after |-> 0]
NoLoc ==
    [user |-> None, wallet |-> None, recipient_address |-> None, contact_phone |-> None,
     receipt |-> None]

\* a collaborator call: a repository method or an HTTP endpoint, with the
\* texts passed to it
Call(op, args, res) == [op |-> op, args |-> args, res |-> res, text |-> None, resp |-> None]

\* the free text of a response: its "error", else its "reason", if it has one
FreeText(resp) ==
    IF resp.json = None THEN None
    ELSE IF IsSome(Unwrap(resp.json).error) THEN Unwrap(resp.json).error
    ELSE Unwrap(resp.json).reason

\* an HTTP call, with the free text that came back
Heard(c, resp) == [c EXCEPT !.text = FreeText(resp)]

\* an HTTP call, with the whole response that came back
Answered(c, resp) == [Heard(c, resp) EXCEPT !.resp = Some(resp)]

\* how a repository lookup came back
Found(f) == IF ~f.ok THEN "err" ELSE IF f.row = None THEN "none" ELSE "some"
OkErr(ok) == IF ok THEN "ok" ELSE "err"

\* how an HTTP request came back: "err" (transport), "timeout", "never"
\* (no answer and no timeout), "bad" (a body that is not JSON), "ok"
\* (success: true) or "fail" (any other JSON)
Outcome(resp, has_timeout) ==
    IF resp.net = "hang" THEN (IF has_timeout THEN "timeout" ELSE "never")
    ELSE IF resp.net = "err" THEN "err"
    ELSE IF resp.json = None THEN "bad"
    ELSE IF AsBoolOrFalse(Unwrap(resp.json).success) THEN "ok"
    ELSE "fail"

\* the outcome of one step of a handler
St(next, rep, l, log) == [pc |-> next, reply |-> rep, loc |-> l, log |-> log]
Ends(rep, l, log) == St("done", Some(rep), l, log)
Panics(l, log) == St("panicked", None, l, log)
Never(l, log) == St("never", None, l, log)

Apply(p, r) ==
    /\ pc' = [pc EXCEPT ![p] = r.pc]
    /\ reply' = [reply EXCEPT ![p] = r.reply]
    /\ loc' = [loc EXCEPT ![p] = r.loc]
    /\ calls' = [calls EXCEPT ![p] = @ \o r.log]

At(p, label, kind) == pc[p] = label /\ cmd[p].kind = kind

\* ------------------------------------------------------------------ JOIN

SuffixTtcip == <<".","t","t","c","i","p",".","e","t","h">>

\* format!("{}.ttcip.eth", name)
FullEns(name) == name \o SuffixTtcip

ReasonTaken == <<"N","a","m","e"," ","t","a","k","e","n">>
ReasonDefault == <<"N","a","m","e"," ","n","o","t"," ","a","v","a","i","l","a","b","l","e">>

\* an Arc wallet address, one shorter than ten bytes, and one whose tenth
\* byte lies inside a character
ArcAddress == <<"0","x","a","b","c","d","e","f","0","1","2","3","4","5","6","7","8","9">>
ArcShort == <<"0","x","a","b">>
ArcNonAscii == <<"0","x","1","2","3","4","5","6","7","<euro>","9">>

EnsCheckResponses ==
    Transport \cup
    { Http(TRUE, [JsonNull EXCEPT !.available = Some(TRUE)]),
      Http(TRUE, [JsonNull EXCEPT !.available = Some(FALSE), !.reason = Some(ReasonTaken)]),
      Http(TRUE, [JsonNull EXCEPT !.available = Some(FALSE)]),
      Http(TRUE, JsonNull),
      Http(FALSE, [JsonNull EXCEPT !.available = Some(TRUE)]) }

EnsRegisterResponses ==
    Transport \cup
    { Http(TRUE, JsonNull), Http(FALSE, JsonNull),
      Http(TRUE, [JsonNull EXCEPT !.success = Some(TRUE)]),
      Http(TRUE, [JsonNull EXCEPT !.success = Some(FALSE), !.error = Some(ReasonTaken)]) }

ArcWalletResponses ==
    Transport \cup
    { Http(TRUE, [JsonNull EXCEPT !.wallet_address = Some(a)]) :
        a \in {ArcAddress, ArcShort, ArcNonAscii, <<>>} }
    \cup { Http(TRUE, JsonNull) }

\* join_response, ens_name = Some(name): up to the first find_by_phone
join_alias_find(from, name, l, db_ok) ==
    IF ~user_repo THEN Ends(DbOffline, l, <<>>)
    ELSE IF len(name) < 3 \/ len(name) > 20
    THEN Ends(Fixed("ENS name must be 3-20 characters.\n\nTry again: JOIN <name>\nExample: JOIN alice"), l, <<>>)
    ELSE IF ~(\A i \in 1..Len(name) : IsAlphanumeric(name[i]))
    THEN Ends(Fixed("ENS name can only contain letters and numbers.\n\nTry again: JOIN <name>"), l, <<>>)
    ELSE LET f == find_by_phone(users, from, db_ok)
             log == << Call("find_by_phone", <<from>>, Found(f)) >>
         IN  IF ~f.ok THEN Ends(ErrorTryLater, l, log)
             ELSE IF f.row = None
             THEN Ends(Fixed("Please use JOIN first to create your wallet."), l, log)
             ELSE St("join_check", None, [l EXCEPT !.user = f.row], log)

\* join_response: GET /api/ens/check/{name}, sent without a timeout
join_check(name, l, resp) ==
    LET log == << Answered(Call("GET /api/ens/check", <<name>>, Outcome(resp, FALSE)), resp) >>
        net == Await(resp, FALSE)
    IN  IF net = "never" THEN Never(l, log)
        ELSE IF net = "ok" /\ resp.status_ok
        THEN IF IsSome(resp.json) /\ ~AsBoolOrFalse(Unwrap(resp.json).available)
             THEN Ends(Reply("<U+274C> {}\n\nTry another name:\nJOIN <name>\n\nExamples: alice, bob123, john",
                             << AsStrOr(Unwrap(resp.json).reason, ReasonDefault) >>), l, log)
             ELSE St("join_register", None, l, log)
        ELSE Ends(Fixed("Error checking name availability. Try later."), l, log)

\* join_response: POST /api/ens/register, sent without a timeout
join_register(name, l, resp) ==
    LET log == << Heard(Call("POST /api/ens/register", <<name, Unwrap(l.user).wallet_address>>,
                        Outcome(resp, FALSE)), resp) >>
        net == Await(resp, FALSE)
    IN  IF net = "never" THEN Never(l, log)
        ELSE IF net = "ok" /\ resp.status_ok THEN St("join_update_ens", None, l, log)
        ELSE Ends(Fixed("Error registering ENS name. Try later."), l, log)

\* a variant that calls update_ens_name a second time when the first failed
join_update_ens_retrying(from, name, l, saved) ==
    Ends(Reply("Registered!\n{}\nWallet: {}\n\nReply DEPOSIT to fund.",
               << FullEns(name), Unwrap(l.user).wallet_address >>),
         l, IF saved THEN << Call("update_ens_name", <<from, FullEns(name)>>, "ok") >>
            ELSE << Call("update_ens_name", <<from, FullEns(name)>>, "err"),
                    Call("update_ens_name", <<from, FullEns(name)>>, "err") >>)

\* join_response: update_ens_name, whose error is only logged
join_update_ens(from, name, l, saved) ==
    Ends(Reply("Registered!\n{}\nWallet: {}\n\nReply DEPOSIT to fund.",
               << FullEns(name), Unwrap(l.user).wallet_address >>),
         l, << Call("update_ens_name", <<from, FullEns(name)>>, OkErr(saved)) >>)

\* join_response, ens_name = None: find_by_phone, and a new wallet if none
join_find(from, l, db_ok) ==
    IF ~user_repo THEN Ends(DbOffline, l, <<>>)
    ELSE LET f == find_by_phone(users, from, db_ok)
             log == << Call("find_by_phone", <<from>>, Found(f)) >>
         IN  IF ~f.ok THEN Ends(ErrorTryLater, l, log)
             ELSE IF IsSome(f.row)
             THEN Ends(Reply("Welcome back!\n\nYour wallet:\n{}\n\nReply BALANCE or DEPOSIT",
                             << Unwrap(f.row).wallet_address >>), l, log)
             ELSE St("join_create", None,
                     [l EXCEPT !.wallet = Some(nextWallet + 1)], log)

\* a variant that goes on to the Arc wallet whatever repo.create returned
join_create_unchecked(from, l, c) ==
    St("join_arc", None, l,
       << Call("create", <<from, WalletAddress(Unwrap(l.wallet))>>, c.res) >>)

\* join_response: the result of repo.create
join_create(from, l, c) ==
    LET log == << Call("create", <<from, WalletAddress(Unwrap(l.wallet))>>, c.res) >>
    IN  IF c.ok THEN St("join_arc", None, l, log)
        ELSE Ends(Fixed("Error saving wallet."), l, log)

\* join_response: POST /api/arc/wallet with a 10 s timeout, and the reply
join_arc(from, l, resp) ==
    LET log == << Heard(Call("POST /api/arc/wallet", <<from>>, Outcome(resp, TRUE)), resp) >>
        arc_wallet ==
            IF Await(resp, TRUE) = "ok" /\ IsSome(resp.json)
            THEN AsStrOr(Unwrap(resp.json).wallet_address, <<>>)
            ELSE <<>>
        address == WalletAddress(Unwrap(l.wallet))
        cut == Min(10, len(arc_wallet))
    IN  IF arc_wallet = <<>>
        THEN Ends(Reply("Wallet created!\n{}\n\nNow pick a name:\nJOIN <name>\n\nEx: JOIN alice",
                        << address >>), l, log)
        ELSE IF ~is_char_boundary(arc_wallet, cut) THEN Panics(l, log)
        ELSE Ends(Reply("Wallet created!\n{}\nArc (USDC): {}...\n\nNow pick a name:\nJOIN <name>\n\nEx: JOIN alice",
                        << address, SliceTo(arc_wallet, cut) >>), l, log)

JoinAliasFind(p) ==
    /\ At(p, "exec", "Join") /\ IsSome(cmd[p].ens_name)
    /\ \E db_ok \in BOOLEAN :
         Apply(p, join_alias_find(msg[p].from, Unwrap(cmd[p].ens_name), loc[p], db_ok))
    /\ UNCHANGED << config, tables, nextWallet, received, msg, cmd, outbox >>

JoinCheck(p) ==
    /\ At(p, "join_check", "Join")
    /\ \E resp \in EnsCheckResponses :
         Apply(p, join_check(Unwrap(cmd[p].ens_name), loc[p], resp))
    /\ UNCHANGED << config, tables, nextWallet, received, msg, cmd, outbox >>

JoinRegister(p) ==
    /\ At(p, "join_register", "Join")
    /\ \E resp \in EnsRegisterResponses :
         Apply(p, join_register(Unwrap(cmd[p].ens_name), loc[p], resp))
    /\ UNCHANGED << config, tables, nextWallet, received, msg, cmd, outbox >>

JoinUpdateEns(p) ==
    /\ At(p, "join_update_ens", "Join")
    /\ \E db_ok \in BOOLEAN :
         LET u == update_ens_name(users, msg[p].from, FullEns(Unwrap(cmd[p].ens_name)), db_ok)
         IN  /\ users' = u.tbl
             /\ Apply(p, join_update_ens(msg[p].from, Unwrap(cmd[p].ens_name), loc[p], u.ok))
    /\ UNCHANGED << config, contacts, deposits, vouchers, nextWallet, received, msg, cmd, outbox >>

JoinFind(p) ==
    /\ At(p, "exec", "Join") /\ cmd[p].ens_name = None
    /\ \E db_ok \in BOOLEAN :
         LET r == join_find(msg[p].from, loc[p], db_ok)
         IN  /\ Apply(p, r)
             /\ nextWallet' = IF r.pc = "join_create" THEN nextWallet + 1 ELSE nextWallet
    /\ UNCHANGED << config, tables, received, msg, cmd, outbox >>

JoinCreate(p) ==
    /\ At(p, "join_create", "Join")
    /\ \E db_ok \in BOOLEAN :
         LET n == Unwrap(loc[p].wallet)
             c == create(users, msg[p].from, WalletAddress(n), PrivateKey(n), db_ok)
         IN  /\ users' = c.tbl
             /\ Apply(p, join_create(msg[p].from, loc[p], c))
    /\ UNCHANGED << config, contacts, deposits, vouchers, nextWallet, received, msg, cmd, outbox >>

JoinArc(p) ==
    /\ At(p, "join_arc", "Join")
    /\ \E resp \in ArcWalletResponses : Apply(p, join_arc(msg[p].from, loc[p], resp))
    /\ UNCHANGED << config, tables, nextWallet, received, msg, cmd, outbox >>

\* -------------------------------------------------- the sender's account
\* The opening of the handlers that need the sender's account: the
\* configured repository, then find_by_phone(from).
require_user(from, l, db_ok, offline, next) ==
    IF ~user_repo THEN Ends(offline, l, <<>>)
    ELSE LET f == find_by_phone(users, from, db_ok)
             log == << Call("find_by_phone", <<from>>, Found(f)) >>
         IN  IF ~f.ok THEN Ends(ErrorTryLater, l, log)
             ELSE IF f.row = None THEN Ends(NoWallet, l, log)
             ELSE St(next, None, [l EXCEPT !.user = f.row], log)

\* --------------------------------------------------------------- BALANCE

TextZero == <<"0">>

BalanceResponses ==
    Transport \cup Failures \cup
    { Http(TRUE, [JsonNull EXCEPT !.success = Some(TRUE), !.txtc = Some(t), !.eth = Some(e)]) :
        t \in {<<"1","0">>, TextZero}, e \in {<<"0",".","5">>, TextZero} }
    \cup { Http(TRUE, [JsonNull EXCEPT !.success = Some(TRUE)]) }

\* s.parse::<f64>().unwrap_or(0.0)
ParseOrZero(t) == IF ParseF64(t).ok THEN ParseF64(t).v ELSE F64("fin", FALSE, 0, 0)

balance_find(from, l, db_ok) ==
    require_user(from, l, db_ok, Fixed("Balance: $0.00\nDB offline."), "balance_http")

\* balance_response: GET /api/balance/{address}, sent without a timeout
balance_http(l, resp) ==
    LET log == << Heard(Call("GET /api/balance", << Unwrap(l.user).wallet_address >>,
                        Outcome(resp, FALSE)), resp) >>
        net == Await(resp, FALSE)
    IN  IF net = "never" THEN Never(l, log)
        ELSE IF net = "err" THEN Ends(NetworkError, l, log)
        ELSE IF resp.json = None THEN Ends(ErrorProcessing, l, log)
        ELSE LET result == Unwrap(resp.json)
                 txtc == ParseOrZero(AsStrOr(result.txtc, TextZero))
                 eth == ParseOrZero(AsStrOr(result.eth, TextZero))
             IN  IF AsBoolOrFalse(result.success)
                 THEN IF IsPositive(txtc) \/ IsPositive(eth)
                      THEN Ends(Reply("Balance:\n{} TXTC\n{} ETH\n\nSepolia testnet",
                                      << DisplayF64(txtc), DisplayF64(eth) >>), l, log)
                      ELSE Ends(Fixed("Balance: $0.00\n\nReply DEPOSIT to fund wallet."), l, log)
                 ELSE Ends(Fixed("Error fetching balance."), l, log)

BalanceFind(p) ==
    /\ At(p, "exec", "Balance")
    /\ \E db_ok \in BOOLEAN : Apply(p, balance_find(msg[p].from, loc[p], db_ok))
    /\ UNCHANGED << config, tables, nextWallet, received, msg, cmd, outbox >>

BalanceHttp(p) ==
    /\ At(p, "balance_http", "Balance")
    /\ \E resp \in BalanceResponses : Apply(p, balance_http(loc[p], resp))
    /\ UNCHANGED << config, tables, nextWallet, received, msg, cmd, outbox >>

\* ------------------------------------------------------------------- PIN

\* format!("{:x}", Sha256::digest(pin)), kept as a tagged text
PinHash(pin) == <<"s","h","a","2","5","6",":">> \o pin

\* a variant without the lower bound on the length
pin_valid_no_minimum(pin) ==
    ~(len(pin) > 6 \/ ~(\A i \in 1..Len(pin) : IsDigit(pin[i])))

pin_valid(pin) ==
    ~(len(pin) < 4 \/ len(pin) > 6 \/ ~(\A i \in 1..Len(pin) : IsDigit(pin[i])))

\* whether pin_response calls update_pin
pin_updates(new_pin) == IsSome(new_pin) /\ pin_valid(Unwrap(new_pin)) /\ user_repo

pin_response(from, new_pin, l, updated) ==
    IF new_pin = None THEN Ends(Fixed("Reply: PIN <4-6 digits>\nExample: PIN 1234"), l, <<>>)
    ELSE IF ~pin_valid(Unwrap(new_pin))
    THEN Ends(Fixed("PIN must be 4-6 digits.\nExample: PIN 1234"), l, <<>>)
    ELSE Ends(Fixed("PIN set!"), l,
              IF user_repo
              THEN << Call("update_pin", <<from, PinHash(Unwrap(new_pin))>>, OkErr(updated)) >>
              ELSE <<>>)

PinResponse(p) ==
    /\ At(p, "exec", "Pin")
    /\ \E db_ok \in BOOLEAN :
         LET u == IF pin_updates(cmd[p].new_pin)
                  THEN update_pin(users, msg[p].from, PinHash(Unwrap(cmd[p].new_pin)), db_ok)
                  ELSE [ok |-> FALSE, tbl |-> users]
         IN  /\ users' = u.tbl
             /\ Apply(p, pin_response(msg[p].from, cmd[p].new_pin, loc[p], u.ok))
    /\ UNCHANGED << config, contacts, deposits, vouchers, nextWallet, received, msg, cmd, outbox >>

\* ------------------------------------------------------------------ SEND

TokenTXTC == <<"T","X","T","C">>
TokenETH == <<"E","T","H">>
Prefix0x == <<"0","x">>
PrefixPlus == <<"+">>
Dot == <<".">>
DotEth == <<".","e","t","h">>

\* an address the name service resolves to
EnsAddress == WalletAddress(5)

EnsResolveResponses ==
    Transport \cup
    { Http(TRUE, [JsonNull EXCEPT !.address = Some(EnsAddress)]), Http(TRUE, JsonNull) }

YellowResponses ==
    Transport \cup Failures \cup { Http(TRUE, [JsonNull EXCEPT !.success = Some(TRUE)]) }

InvalidRecipient ==
    Fixed("Invalid recipient.\nUse ENS (name.ttcip.eth), phone (+1...), or address (0x...)")

\* a variant that looks for the directory before it looks at the token
send_find_sender_directory_first(from, token, l, db_ok) ==
    IF ~user_repo THEN Ends(DbOffline, l, <<>>)
    ELSE IF to_uppercase(token) # TokenTXTC /\ to_uppercase(token) # TokenETH
    THEN Ends(Fixed("Supported tokens: TXTC, ETH\nExample: SEND 10 TXTC swarnim.ttcip.eth"), l, <<>>)
    ELSE require_user(from, l, db_ok, DbOffline, "send_resolve")

\* send_response: the token check, then the sender's account
send_find_sender(from, token, l, db_ok) ==
    IF to_uppercase(token) # TokenTXTC /\ to_uppercase(token) # TokenETH
    THEN Ends(Fixed("Supported tokens: TXTC, ETH\nExample: SEND 10 TXTC swarnim.ttcip.eth"), l, <<>>)
    ELSE require_user(from, l, db_ok, DbOffline, "send_resolve")

\* a variant without the literal-address branch
strategy_no_address(recipient) ==
    IF starts_with(recipient, PrefixPlus) THEN "phone"
    ELSE IF contains(recipient, DotEth) \/ contains(recipient, Dot) THEN "ens"
    ELSE "contact"

\* send_response: which branch of the if / else-if chain takes the recipient
strategy(recipient) ==
    IF starts_with(recipient, Prefix0x) /\ len(recipient) = 42 THEN "address"
    ELSE IF starts_with(recipient, PrefixPlus) THEN "phone"
    ELSE IF contains(recipient, DotEth) \/ contains(recipient, Dot) THEN "ens"
    ELSE "contact"

Resolved(l, address, log) ==
    St("send_yellow", None, [l EXCEPT !.recipient_address = Some(address)], log)

\* a variant that answers a phone without an account as an invalid recipient
resolve_phone_invalid(recipient, l, db_ok) ==
    LET f == find_by_phone(users, recipient, db_ok)
        log == << Call("find_by_phone", <<recipient>>, Found(f)) >>
    IN  IF ~f.ok THEN Ends(Fixed("Error looking up recipient."), l, log)
        ELSE IF f.row = None THEN Ends(InvalidRecipient, l, log)
        ELSE Resolved(l, Unwrap(f.row).wallet_address, log)

\* the phone branch: find_by_phone(recipient)
resolve_phone(recipient, l, db_ok) ==
    LET f == find_by_phone(users, recipient, db_ok)
        log == << Call("find_by_phone", <<recipient>>, Found(f)) >>
    IN  IF ~f.ok THEN Ends(Fixed("Error looking up recipient."), l, log)
        ELSE IF f.row = None
        THEN Ends(Reply("{} hasn't joined yet.\nAsk them to text JOIN", <<recipient>>), l, log)
        ELSE Resolved(l, Unwrap(f.row).wallet_address, log)

\* how the name service answered: "some" with an address, "none" with JSON
\* that holds none, and otherwise how the request failed
Resolution(resp) ==
    IF resp.net = "ok" /\ IsSome(resp.json)
    THEN IF IsSome(Unwrap(resp.json).address) THEN "some" ELSE "none"
    ELSE Outcome(resp, FALSE)

\* a variant that sends the typed name on when the service knows no address
resolve_ens_unresolved(recipient, l, resp) ==
    LET log == << Heard(Call("GET /api/ens/resolve", <<recipient>>, Resolution(resp)), resp) >>
        net == Await(resp, FALSE)
    IN  IF net = "never" THEN St("never", None, l, log)
        ELSE IF net = "err" THEN Ends(Fixed("Network error resolving ENS. Try later."), l, log)
        ELSE IF resp.json = None THEN Ends(Reply("Could not resolve {}.", <<recipient>>), l, log)
        ELSE IF IsSome(Unwrap(resp.json).address)
        THEN St("send_yellow", None,
                [l EXCEPT !.recipient_address = Some(Unwrap(Unwrap(resp.json).address))], log)
        ELSE St("send_yellow", None, [l EXCEPT !.recipient_address = Some(recipient)], log)

\* a variant that answers an unknown name as it answers an unreachable service
resolve_ens_one_reply(recipient, l, resp) ==
    LET log == << Heard(Call("GET /api/ens/resolve", <<recipient>>, Resolution(resp)), resp) >>
        net == Await(resp, FALSE)
    IN  IF net = "never" THEN St("never", None, l, log)
        ELSE IF net = "err" THEN Ends(Fixed("Network error resolving ENS. Try later."), l, log)
        ELSE IF resp.json = None THEN Ends(Reply("Could not resolve {}.", <<recipient>>), l, log)
        ELSE IF IsSome(Unwrap(resp.json).address)
        THEN St("send_yellow", None,
                [l EXCEPT !.recipient_address = Some(Unwrap(Unwrap(resp.json).address))], log)
        ELSE Ends(Fixed("Network error resolving ENS. Try later."), l, log)

\* the name branch: GET /api/ens/resolve/{recipient}, sent without a timeout
resolve_ens(recipient, l, resp) ==
    LET log == << Heard(Call("GET /api/ens/resolve", <<recipient>>, Resolution(resp)), resp) >>
        net == Await(resp, FALSE)
    IN  IF net = "never" THEN Never(l, log)
        ELSE IF net = "err" THEN Ends(Fixed("Network error resolving ENS. Try later."), l, log)
        ELSE IF resp.json = None THEN Ends(Reply("Could not resolve {}.", <<recipient>>), l, log)
        ELSE IF IsSome(Unwrap(resp.json).address)
        THEN Resolved(l, Unwrap(Unwrap(resp.json).address), log)
        ELSE Ends(Reply("Could not resolve {}.\nUse wallet address instead.", <<recipient>>), l, log)

\* the contact branch: find_by_name(from, recipient) and its first row
resolve_contact(from, recipient, l, db_ok) ==
    IF ~address_book_repo THEN Ends(InvalidRecipient, l, <<>>)
    ELSE LET f == find_by_name(contacts, from, recipient, db_ok)
             log == << Call("find_by_name", <<from, recipient>>,
                            IF ~f.ok THEN "err" ELSE IF f.rows = <<>> THEN "none" ELSE "some") >>
         IN  IF f.ok /\ f.rows # <<>>
             THEN LET contact == f.rows[1]
                  IN  IF IsSome(contact.wallet_address)
                      THEN Resolved(l, Unwrap(contact.wallet_address), log)
                      ELSE IF IsSome(contact.contact_phone)
                      THEN St("send_contact_phone", None,
                              [l EXCEPT !.contact_phone = contact.contact_phone], log)
                      ELSE Ends(Reply("Contact {} has no address.", <<recipient>>), l, log)
             ELSE Ends(InvalidRecipient, l, log)

\* send_response: recipient resolution up to its first await
send_resolve(from, recipient, l, db_ok, resp) ==
    LET s == strategy(recipient)
    IN  IF s = "address" THEN Resolved(l, recipient, <<>>)
        ELSE IF s = "phone" THEN resolve_phone(recipient, l, db_ok)
        ELSE IF s = "ens" THEN resolve_ens(recipient, l, resp)
        ELSE resolve_contact(from, recipient, l, db_ok)

\* the contact branch: find_by_phone(contact.contact_phone)
send_contact_phone(recipient, l, db_ok) ==
    LET phone == Unwrap(l.contact_phone)
        f == find_by_phone(users, phone, db_ok)
        log == << Call("find_by_phone", <<phone>>, Found(f)) >>
    IN  IF f.ok /\ IsSome(f.row) THEN Resolved(l, Unwrap(f.row).wallet_address, log)
        ELSE Ends(Reply("Contact {} has no wallet.", <<recipient>>), l, log)

ErrInsufficientKw == <<"i","n","s","u","f","f","i","c","i","e","n","t">>
ErrBalanceKw == <<"b","a","l","a","n","c","e">>

\* send_response: POST /api/send-yellow with a 30 s timeout, and the reply
send_yellow(from, amount, token, recipient, l, resp) ==
    LET token_upper == to_uppercase(token)
        sender == Unwrap(l.user)
        log == << Heard(Call("POST /api/send-yellow",
                       << sender.wallet_address, Unwrap(l.recipient_address),
                          DisplayF64(amount), token_upper, from,
                          sender.encrypted_private_key >>, Outcome(resp, TRUE)), resp) >>
        net == Await(resp, TRUE)
    IN  IF net = "err" THEN Ends(NetworkError, l, log)
        ELSE IF resp.json = None THEN Ends(ErrorProcessing, l, log)
        ELSE LET result == Unwrap(resp.json)
                 error_msg == AsStrOr(result.error, <<"U","n","k","n","o","w","n"," ","e","r","r","o","r">>)
             IN  IF AsBoolOrFalse(result.success)
                 THEN Ends(Reply("Sending {} {} to {}...\n\nQueued via Yellow Network.\nYou'll get SMS when complete.",
                                 << DisplayF64(amount), token_upper, recipient >>), l, log)
                 ELSE IF contains(error_msg, ErrInsufficientKw) \/ contains(error_msg, ErrBalanceKw)
                 THEN Ends(Fixed("Insufficient balance."), l, log)
                 ELSE Ends(Fixed("Transfer failed. Try later."), l, log)

SendFindSender(p) ==
    /\ At(p, "exec", "Send")
    /\ \E db_ok \in BOOLEAN :
         Apply(p, send_find_sender(msg[p].from, cmd[p].token, loc[p], db_ok))
    /\ UNCHANGED << config, tables, nextWallet, received, msg, cmd, outbox >>

SendResolve(p) ==
    /\ At(p, "send_resolve", "Send")
    /\ \E db_ok \in BOOLEAN, resp \in EnsResolveResponses :
         Apply(p, send_resolve(msg[p].from, cmd[p].recipient, loc[p], db_ok, resp))
    /\ UNCHANGED << config, tables, nextWallet, received, msg, cmd, outbox >>

SendContactPhone(p) ==
    /\ At(p, "send_contact_phone", "Send")
    /\ \E db_ok \in BOOLEAN : Apply(p, send_contact_phone(cmd[p].recipient, loc[p], db_ok))
    /\ UNCHANGED << config, tables, nextWallet, received, msg, cmd, outbox >>

SendYellow(p) ==
    /\ At(p, "send_yellow", "Send")
    /\ \E resp \in YellowResponses :
         Apply(p, send_yellow(msg[p].from, cmd[p].amount, cmd[p].token,
                              cmd[p].recipient, loc[p], resp))
    /\ UNCHANGED << config, tables, nextWallet, received, msg, cmd, outbox >>

\* --------------------------------------------------------------- DEPOSIT

\* a variant that remembers the chain of an earlier CHAIN message and sends
\* the deposit there
deposit_response_on_chain(from, l, db_ok) ==
    LET r == require_user(from, l, db_ok, Fixed("DB offline. Reply JOIN first."), "found")
        chosen == { i \in 1..Len(outbox) :
                      outbox[i].from = from /\ outbox[i].cmd.kind = "SwitchChain" }
    IN  IF r.pc # "found" THEN r
        ELSE IF chosen # {}
        THEN Ends(Reply("Fund wallet on {}:\n{}",
                        << outbox[CHOOSE i \in chosen : \A k \in chosen : k <= i].cmd.chain,
                           Unwrap(r.loc.user).wallet_address >>), r.loc, r.log)
        ELSE LET user == Unwrap(r.loc.user)
                 deposit_address ==
                     IF IsSome(user.ens_name) THEN Unwrap(user.ens_name)
                     ELSE user.wallet_address
             IN  Ends(Reply("Fund wallet:\nDial *384*46750#\nOr REDEEM <code>\nOr send to:\n{}",
                            << deposit_address >>), r.loc, r.log)

deposit_response(from, l, db_ok) ==
    LET r == require_user(from, l, db_ok, Fixed("DB offline. Reply JOIN first."), "found")
    IN  IF r.pc # "found" THEN r
        ELSE LET user == Unwrap(r.loc.user)
                 deposit_address ==
                     IF IsSome(user.ens_name) THEN Unwrap(user.ens_name)
                     ELSE user.wallet_address
             IN  Ends(Reply("Fund wallet:\nDial *384*46750#\nOr REDEEM <code>\nOr send to:\n{}",
                            << deposit_address >>), r.loc, r.log)

DepositResponse(p) ==
    /\ At(p, "exec", "Deposit")
    /\ \E db_ok \in BOOLEAN : Apply(p, deposit_response(msg[p].from, loc[p], db_ok))
    /\ UNCHANGED << config, tables, nextWallet, received, msg, cmd, outbox >>

\* --------------------------------------------------------------- HISTORY

\* lines.join("\n")
RECURSIVE JoinLines(_)
JoinLines(lines) ==
    IF lines = <<>> THEN <<>>
    ELSE IF Len(lines) = 1 THEN lines[1]
    ELSE lines[1] \o <<"\n">> \o JoinLines(Tail(lines))

\* format!("${:.2} via {}", d.amount_as_f64(), d.source)
DepositLine(d) == <<"$">> \o DisplayFixed(d.amount, 2) \o <<" ","v","i","a"," ">> \o d.source

history_response(from, l, db_ok) ==
    IF ~deposit_repo
    THEN Ends(Fixed("No transactions yet.\nReply REDEEM <code> to add funds."), l, <<>>)
    ELSE LET g == get_recent(deposits, from, 5, db_ok)
             log == << Call("get_recent", <<from>>, OkErr(g.ok)) >>
         IN  IF g.ok /\ g.rows # <<>>
             THEN Ends(Reply("Recent deposits:\n{}",
                             << JoinLines([i \in 1..Len(g.rows) |-> DepositLine(g.rows[i])]) >>),
                       l, log)
             ELSE Ends(Fixed("No transactions yet.\nReply REDEEM <code> to add funds."), l, log)

HistoryResponse(p) ==
    /\ At(p, "exec", "History")
    /\ \E db_ok \in BOOLEAN : Apply(p, history_response(msg[p].from, loc[p], db_ok))
    /\ UNCHANGED << config, tables, nextWallet, received, msg, cmd, outbox >>

\* ---------------------------------------------------------------- REDEEM

RedeemResponses ==
    Transport \cup Failures \cup
    { Http(TRUE, [JsonNull EXCEPT !.success = Some(TRUE),
                                  !.tokenAmount = Some(<<"1","0">>), !.ethAmount = Some(<<"0",".","0","0","1">>)]),
      Http(TRUE, [JsonNull EXCEPT !.success = Some(TRUE)]) }

redeem_find(from, l, db_ok) == require_user(from, l, db_ok, DbOffline, "redeem_http")

\* redeem_response: POST /api/redeem, sent without a timeout, and the reply
redeem_http(from, code, l, resp) ==
    LET log == << Heard(Call("POST /api/redeem", << code, Unwrap(l.user).wallet_address, from >>,
                        Outcome(resp, FALSE)), resp) >>
        net == Await(resp, FALSE)
    IN  IF net = "never" THEN Never(l, log)
        ELSE IF net = "err" THEN Ends(NetworkError, l, log)
        ELSE IF resp.json = None THEN Ends(ErrorProcessing, l, log)
        ELSE LET result == Unwrap(resp.json)
                 error_msg == AsStrOr(result.error, <<"U","n","k","n","o","w","n"," ","e","r","r","o","r">>)
             IN  IF AsBoolOrFalse(result.success)
                 THEN Ends(Reply("Voucher redeemed!\n\nReceived:\n{} TXTC\n{} ETH (gas)\n\nReply BALANCE to check.",
                                 << AsStrOr(result.tokenAmount, TextZero),
                                    AsStrOr(result.ethAmount, TextZero) >>), l, log)
                 ELSE IF contains(error_msg, <<"a","l","r","e","a","d","y"," ","r","e","d","e","e","m","e","d">>) \/ contains(error_msg, <<"A","l","r","e","a","d","y","R","e","d","e","e","m","e","d">>)
                 THEN Ends(Fixed("Voucher already used."), l, log)
                 ELSE IF contains(error_msg, <<"n","o","t"," ","f","o","u","n","d">>) \/ contains(error_msg, <<"i","n","v","a","l","i","d">>)
                 THEN Ends(Fixed("Invalid voucher code."), l, log)
                 ELSE Ends(Fixed("Redemption failed. Try later."), l, log)

RedeemFind(p) ==
    /\ At(p, "exec", "Redeem")
    /\ \E db_ok \in BOOLEAN : Apply(p, redeem_find(msg[p].from, loc[p], db_ok))
    /\ UNCHANGED << config, tables, nextWallet, received, msg, cmd, outbox >>

\* a variant that records the redeemed voucher in the deposits table
RedeemHttpRecording(p) ==
    /\ At(p, "redeem_http", "Redeem")
    /\ \E resp \in RedeemResponses :
         /\ Apply(p, redeem_http(msg[p].from, cmd[p].code, loc[p], resp))
         /\ deposits' = IF Outcome(resp, FALSE) = "ok"
                        THEN Append(deposits, [phone |-> msg[p].from,
                                               amount |-> F64("fin", FALSE, 1, 0),
                                               source |-> <<"v","o","u","c","h","e","r">>])
                        ELSE deposits
    /\ UNCHANGED << config, users, contacts, vouchers, nextWallet, received, msg, cmd, outbox >>

RedeemHttp(p) ==
    /\ At(p, "redeem_http", "Redeem")
    /\ \E resp \in RedeemResponses :
         Apply(p, redeem_http(msg[p].from, cmd[p].code, loc[p], resp))
    /\ UNCHANGED << config, tables, nextWallet, received, msg, cmd, outbox >>

\* ------------------------------------------- BUY, SWAP, CASHOUT, BRIDGE

RouteText == <<"p","o","l","y","g","o","n",">","b","a","s","e">>

AsyncResponses ==
    Transport \cup Failures \cup
    { Http(TRUE, [JsonNull EXCEPT !.success = Some(TRUE)]),
      Http(TRUE, [JsonNull EXCEPT !.success = Some(TRUE), !.route = Some(RouteText)]) }

buy_find(from, l, db_ok) == require_user(from, l, db_ok, DbOffline, "buy_http")

\* buy_response: POST /api/buy with a 2 s timeout, result dropped
buy_http(from, amount, l, resp) ==
    LET log == << Heard(Call("POST /api/buy",
                       << Unwrap(l.user).wallet_address, DisplayF64(amount), from >>,
                       Outcome(resp, TRUE)), resp) >>
    IN  Ends(Reply("Buying TXTC with <euro>{:.0} airtime...\n\nYou'll get an SMS when complete.",
                   << DisplayFixed(amount, 0) >>), l, log)

swap_find(from, l, db_ok) == require_user(from, l, db_ok, DbOffline, "swap_http")

\* a variant whose reply reports a transport failure
swap_http_reporting(from, amount, token, l, resp) ==
    LET log == << Heard(Call("POST /api/swap",
                       << Unwrap(l.user).wallet_address, DisplayF64(amount), TextZero, from >>,
                       Outcome(resp, TRUE)), resp) >>
    IN  IF Await(resp, TRUE) = "err" THEN Ends(NetworkError, l, log)
        ELSE Ends(Reply("Swapping {} {}...\n\nYou'll get an SMS when complete.\n\nThis may take 30 seconds.",
                        << DisplayF64(amount), token >>), l, log)

\* swap_response: POST /api/swap with a 2 s timeout, result dropped
swap_http(from, amount, token, l, resp) ==
    LET log == << Heard(Call("POST /api/swap",
                       << Unwrap(l.user).wallet_address, DisplayF64(amount), TextZero, from >>,
                       Outcome(resp, TRUE)), resp) >>
    IN  Ends(Reply("Swapping {} {}...\n\nYou'll get an SMS when complete.\n\nThis may take 30 seconds.",
                   << DisplayF64(amount), token >>), l, log)

cashout_find(from, l, db_ok) == require_user(from, l, db_ok, DbOffline, "cashout_http")

\* cashout_response: POST /api/arc/cashout with a 5 s timeout, result dropped
cashout_http(from, amount, token, l, resp) ==
    LET token_upper == to_uppercase(token)
        log == << Heard(Call("POST /api/arc/cashout",
                       << from, Unwrap(l.user).wallet_address, DisplayF64(amount), token_upper >>,
                       Outcome(resp, TRUE)), resp) >>
    IN  Ends(Reply("Cashing out {} {}...\n\nTXTC -> USDC on Arc via Circle CCTP.\nYou'll get an SMS when complete.\n\nThis may take 1-2 minutes.",
                   << DisplayF64(amount), token_upper >>), l, log)

bridge_find(from, l, db_ok) == require_user(from, l, db_ok, DbOffline, "bridge_http")

\* bridge_response: POST /api/bridge with a 5 s timeout, and the reply
bridge_http(from, amount, token, from_chain, to_chain, l, resp) ==
    LET log == << Heard(Call("POST /api/bridge",
                       << to_lowercase(from_chain), to_lowercase(to_chain), token, token,
                          DisplayF64(amount), Unwrap(l.user).wallet_address, from >>,
                       Outcome(resp, TRUE)), resp) >>
        net == Await(resp, TRUE)
    IN  IF net = "err" THEN Ends(Fixed("Bridge service unavailable. Try later."), l, log)
        ELSE IF resp.json = None
        THEN Ends(Fixed("Bridge initiated. You'll get an SMS when complete."), l, log)
        ELSE LET result == Unwrap(resp.json)
             IN  IF AsBoolOrFalse(result.success)
                 THEN Ends(Reply("Bridge started!\n{}\nSMS when done.",
                                 << AsStrOr(result.route, <<>>) >>), l, log)
                 ELSE Ends(Reply("<U+274C> Bridge failed: {}",
                                 << AsStrOr(result.error, <<"U","n","k","n","o","w","n"," ","e","r","r","o","r">>) >>), l, log)

BuyFind(p) ==
    /\ At(p, "exec", "Buy")
    /\ \E db_ok \in BOOLEAN : Apply(p, buy_find(msg[p].from, loc[p], db_ok))
    /\ UNCHANGED << config, tables, nextWallet, received, msg, cmd, outbox >>

BuyHttp(p) ==
    /\ At(p, "buy_http", "Buy")
    /\ \E resp \in AsyncResponses : Apply(p, buy_http(msg[p].from, cmd[p].amount, loc[p], resp))
    /\ UNCHANGED << config, tables, nextWallet, received, msg, cmd, outbox >>

SwapFind(p) ==
    /\ At(p, "exec", "Swap")
    /\ \E db_ok \in BOOLEAN : Apply(p, swap_find(msg[p].from, loc[p], db_ok))
    /\ UNCHANGED << config, tables, nextWallet, received, msg, cmd, outbox >>

SwapHttp(p) ==
    /\ At(p, "swap_http", "Swap")
    /\ \E resp \in AsyncResponses :
         Apply(p, swap_http(msg[p].from, cmd[p].amount, cmd[p].token, loc[p], resp))
    /\ UNCHANGED << config, tables, nextWallet, received, msg, cmd, outbox >>

CashoutFind(p) ==
    /\ At(p, "exec", "Cashout")
    /\ \E db_ok \in BOOLEAN : Apply(p, cashout_find(msg[p].from, loc[p], db_ok))
    /\ UNCHANGED << config, tables, nextWallet, received, msg, cmd, outbox >>

CashoutHttp(p) ==
    /\ At(p, "cashout_http", "Cashout")
    /\ \E resp \in AsyncResponses :
         Apply(p, cashout_http(msg[p].from, cmd[p].amount, cmd[p].token, loc[p], resp))
    /\ UNCHANGED << config, tables, nextWallet, received, msg, cmd, outbox >>

BridgeFind(p) ==
    /\ At(p, "exec", "Bridge")
    /\ \E db_ok \in BOOLEAN : Apply(p, bridge_find(msg[p].from, loc[p], db_ok))
    /\ UNCHANGED << config, tables, nextWallet, received, msg, cmd, outbox >>

BridgeHttp(p) ==
    /\ At(p, "bridge_http", "Bridge")
    /\ \E resp \in AsyncResponses :
         Apply(p, bridge_http(msg[p].from, cmd[p].amount, cmd[p].token,
                              cmd[p].from_chain, cmd[p].to_chain, loc[p], resp))
    /\ UNCHANGED << config, tables, nextWallet, received, msg, cmd, outbox >>

\* ---------------------------------------------------- SAVE and CONTACTS

save_response(from, name, phone, l, saved) ==
    IF ~address_book_repo THEN Ends(Fixed("Address book offline."), l, <<>>)
    ELSE LET log == << Call("add_contact", <<from, name, phone>>, OkErr(saved)) >>
         IN  IF saved THEN Ends(Reply("Saved {} as {}.", <<phone, name>>), l, log)
             ELSE Ends(Fixed("Error saving contact."), l, log)

SaveResponse(p) ==
    /\ At(p, "exec", "Save")
    /\ \E db_ok \in BOOLEAN :
         LET a == IF address_book_repo
                  THEN add_contact(contacts, msg[p].from, cmd[p].name,
                                   Some(cmd[p].phone), None, db_ok)
                  ELSE [ok |-> FALSE, tbl |-> contacts]
         IN  /\ contacts' = a.tbl
             /\ Apply(p, save_response(msg[p].from, cmd[p].name, cmd[p].phone, loc[p], a.ok))
    /\ UNCHANGED << config, users, deposits, vouchers, nextWallet, received, msg, cmd, outbox >>

\* Contact::to_sms_string
to_sms_string(c) ==
    c.name \o <<":"," ">> \o
    (IF IsSome(c.contact_phone) THEN Unwrap(c.contact_phone)
     ELSE IF IsSome(c.wallet_address) THEN Unwrap(c.wallet_address) ELSE <<>>)

contacts_response(from, l, db_ok) ==
    IF ~address_book_repo THEN Ends(Fixed("Address book offline."), l, <<>>)
    ELSE LET r == list_all(contacts, from, db_ok)
             log == << Call("list_all", <<from>>, OkErr(r.ok)) >>
             shown == SubSeq(r.rows, 1, Min(5, Len(r.rows)))
         IN  IF ~r.ok THEN Ends(Fixed("Error loading contacts."), l, log)
             ELSE IF r.rows = <<>> THEN Ends(Fixed("No contacts yet.\n\nSAVE <name> <phone>"), l, log)
             ELSE Ends(Reply("Contacts:\n{}",
                             << JoinLines([i \in 1..Len(shown) |-> to_sms_string(shown[i])]) >>),
                       l, log)

ContactsResponse(p) ==
    /\ At(p, "exec", "Contacts")
    /\ \E db_ok \in BOOLEAN : Apply(p, contacts_response(msg[p].from, loc[p], db_ok))
    /\ UNCHANGED << config, tables, nextWallet, received, msg, cmd, outbox >>

\* ------------------------------------------------- CHAIN, HELP, unknown

\* Chain::from_input: the chains the usage text names
ChainNames == { <<"p","o","l","y","g","o","n">>, <<"b","a","s","e">>, <<"e","t","h">>, <<"a","r","b">> }

chain_response(from, chain_input, l) ==
    IF to_lowercase(chain_input) \notin ChainNames
    THEN Ends(Reply("Unknown chain: {}\n\nAvailable: polygon, base, eth, arb", <<chain_input>>), l, <<>>)
    ELSE Ends(Reply("Switched to {}!\n\nChain ID: {}\nNative: {}", << to_lowercase(chain_input) >>), l, <<>>)

ChainResponse(p) ==
    /\ At(p, "exec", "SwitchChain")
    /\ Apply(p, chain_response(msg[p].from, cmd[p].chain, loc[p]))
    /\ UNCHANGED << config, tables, nextWallet, received, msg, cmd, outbox >>

help_response ==
    Fixed("Text-to-Chain Commands:\nJOIN <name> - Create wallet\nBALANCE - Check balance\nSEND 10 TXTC TO name.ttcip.eth\nBUY 10 - Buy TXTC with airtime\nDEPOSIT - Get deposit address\nREDEEM <code> - Redeem voucher\nSWAP 10 TXTC - Swap to ETH\nCASHOUT 10 TXTC - Cash out to USDC\nCASHOUT 0.001 ETH - Cash out ETH\nMENU - Show this help")

HelpResponse(p) ==
    /\ At(p, "exec", "Help")
    /\ Apply(p, Ends(help_response, loc[p], <<>>))
    /\ UNCHANGED << config, tables, nextWallet, received, msg, cmd, outbox >>

unknown_response(text) ==
    IF text = <<>> THEN Fixed("Welcome to TextChain!\n\nReply COMMANDS for help.")
    ELSE Reply("Unknown: {}\n\nReply COMMANDS for help.", << Take(text, 15) >>)

UnknownResponse(p) ==
    /\ At(p, "exec", "Unknown")
    /\ Apply(p, Ends(unknown_response(cmd[p].text), loc[p], <<>>))
    /\ UNCHANGED << config, tables, nextWallet, received, msg, cmd, outbox >>

\* ------------------------------------------------------------- messages

\* a recipient of the shape of an address, which is also a contact's name
AddressShaped == <<"0","x","0","0","0","0","0","0","0","0","0","0","0","0","0","0","0","0","0","0","0","0","0","0","0","0","0","0","0","0","0","0","0","0","0","0","0","0","0","0","0","8">>

JoinBodies ==
    { <<"J","O","I","N">>, <<"s","t","a","r","t"," ","A","l","i","c","e">>, <<"J","O","I","N"," ","a","b">>, <<"J","O","I","N"," ","a","_","b","1">> }

\* aliases at the edges of the format validation: one character of three
\* bytes, and twenty-one letters
AliasBodies ==
    { <<"J","O","I","N"," ","<U+4E2D>">>,
      <<"J","O","I","N"," ","a","b","c","d","e","f","g","h","i","j","k","l","m","n","o","p","q","r","s","t","u">> }

SendBodies ==
    { <<"S","E","N","D"," ","1","0"," ","T","X","T","C">>,
      <<"S","E","N","D"," ","x"," ","T","X","T","C"," ","b","o","b">>,
      <<"S","E","N","D"," ","1","0"," ","U","S","D","C"," ","b","o","b">>,
      <<"S","E","N","D"," ","1","0"," ","T","X","T","C"," ","T","O">>,
      <<"s","e","n","d"," ","1","0"," ","t","x","t","c"," ">> \o AddressShaped,
      <<"S","E","N","D"," ","1","0"," ","T","X","T","C"," ","T","O"," ","+","2">>, <<"S","E","N","D"," ","5"," ","E","T","H"," ","+","1">>,
      <<"S","E","N","D"," ","0",".","5"," ","e","t","h"," ","a",".","b">>, <<"S","E","N","D"," ","1","0"," ","T","X","T","C"," ","b","o","b">>,
      <<"S","E","N","D"," ","1","0"," ","T","X","T","C"," ","c","a","r","o","l">>, <<"S","E","N","D"," ","1"," ","T","X","T","C"," ","d","a","v","e">>, <<"S","E","N","D"," ","1"," ","T","X","T","C"," ","z","e","d">> }

AsyncBodies ==
    { <<"S","W","A","P"," ","5"," ","T","X","T","C">>,
      <<"C","A","S","H","O","U","T"," ","5"," ","t","x","t","c">>,
      <<"C","A","S","H","O","U","T"," ","0",".","5"," ","E","T","H">>,
      <<"B","U","Y"," ","1","0">>,
      <<"B","U","Y"," ","2",".","5">>,
      <<"S","W","A","P"," ","0"," ","T","X","T","C">>,
      <<"B","U","Y"," ","-","5">>,
      <<"B","R","I","D","G","E"," ","1","0"," ","U","S","D","C"," ","F","R","O","M"," ","P","O","L","Y","G","O","N"," ","T","O"," ","B","A","S","E">> }

OtherBodies ==
    { <<"M","E","N","U">>,
      <<"b","a","l">>,
      <<"P","I","N">>,
      <<"P","I","N"," ","1","2">>,
      <<"P","I","N"," ","1","2","3","4">>,
      <<"P","I","N"," ","1","2","3","4","5","6","7">>,
      <<"P","I","N"," ","1","2","a","4">>,
      <<"P","I","N"," ","1","<euro>">>,
      <<"D","E","P","O","S","I","T">>,
      <<"H","I","S","T","O","R","Y">>,
      <<"R","E","D","E","E","M">>,
      <<"R","E","D","E","E","M"," ","a","b","c">>,
      <<"B","U","Y"," ","x">>,
      <<"S","A","V","E"," ","b","o","b"," ","+","2">>,
      <<"C","O","N","T","A","C","T","S">>,
      <<"C","H","A","I","N"," ","b","a","s","e">>,
      <<"C","H","A","I","N"," ","f","o","o">>,
      <<"F","O","O","B","A","R">>,
      <<" "," ">> }

Bodies == JoinBodies \cup AliasBodies \cup SendBodies \cup AsyncBodies \cup OtherBodies

\* the address book the runs start from: contacts of Phone1
Book ==
    << Contact(Phone1, <<"b","o","b">>, Some(Phone2), None),
       Contact(Phone1, <<"c","a","r","o","l">>, None, Some(WalletAddress(7))),
       Contact(Phone1, <<"d","a","v","e">>, None, None),
       Contact(Phone1, AddressShaped, None, Some(WalletAddress(9))),
       Contact(Phone1, Phone2, None, Some(WalletAddress(9))),
       Contact(Phone1, <<"a",".","b">>, None, Some(WalletAddress(9))) >>

\* the users tables the runs start from: nobody, Phone1, or both have joined
UserTables ==
    { <<>>,
      << User(Phone1, WalletAddress(1), PrivateKey(1)) >>,
      << User(Phone1, WalletAddress(1), PrivateKey(1)),
         User(Phone2, WalletAddress(2), PrivateKey(2)) >> }

Deposits0 ==
    << [phone |-> Phone1, amount |-> F64("fin", FALSE, 5, 0), source |-> <<"v","o","u","c","h","e","r">>] >>

\* the vouchers the runs start from: one unredeemed, one redeemed by Phone2
CodeFresh == <<"A","B","C">>
CodeUsed == <<"U","S","E","D">>
Vouchers0 == << Voucher(CodeFresh, None), Voucher(CodeUsed, Some(Phone2)) >>

NoCmd == [kind |-> "None"]

Init ==
    /\ user_repo \in BOOLEAN
    /\ address_book_repo \in BOOLEAN
    /\ deposit_repo = address_book_repo
    /\ users \in UserTables
    /\ contacts = Book
    /\ deposits = Deposits0
    /\ vouchers = Vouchers0
    /\ nextWallet = Len(users)
    /\ received = 0
    /\ pc = [p \in Procs |-> "idle"]
    /\ msg = [p \in Procs |-> NoMsg]
    /\ cmd = [p \in Procs |-> NoCmd]
    /\ loc = [p \in Procs |-> NoLoc]
    /\ reply = [p \in Procs |-> None]
    /\ calls = [p \in Procs |-> <<>>]
    /\ outbox = <<>>

\* process(from, body): parse, then execute takes over
ReceiveWithin(p, from, body, max) ==
    /\ pc[p] = "idle"
    /\ received < max
    /\ received' = received + 1
    /\ pc' = [pc EXCEPT ![p] = "exec"]
    /\ msg' = [msg EXCEPT ![p] = [from |-> from, body |-> body, after |-> Len(outbox)]]
    /\ cmd' = [cmd EXCEPT ![p] = parse(body)]
    /\ loc' = [loc EXCEPT ![p] = NoLoc]
    /\ reply' = [reply EXCEPT ![p] = None]
    /\ calls' = [calls EXCEPT ![p] = <<>>]
    /\ UNCHANGED << config, tables, nextWallet, outbox >>

Receive(p, from, body) == ReceiveWithin(p, from, body, MaxMsgs)

\* process returns (or unwinds): the handler's slot is free again
Deliver(p) ==
    /\ pc[p] \in {"done", "panicked"}
    /\ outbox' = Append(outbox, [from |-> msg[p].from, body |-> msg[p].body,
                                 after |-> msg[p].after, cmd |-> cmd[p],
                                 reply |-> reply[p], calls |-> calls[p]])
    /\ pc' = [pc EXCEPT ![p] = "idle"]
    /\ msg' = [msg EXCEPT ![p] = NoMsg]
    /\ cmd' = [cmd EXCEPT ![p] = NoCmd]
    /\ loc' = [loc EXCEPT ![p] = NoLoc]
    /\ reply' = [reply EXCEPT ![p] = None]
    /\ calls' = [calls EXCEPT ![p] = <<>>]
    /\ UNCHANGED << config, tables, nextWallet, received >>

JoinStep(p) ==
    \/ JoinAliasFind(p) \/ JoinCheck(p) \/ JoinRegister(p) \/ JoinUpdateEns(p)
    \/ JoinFind(p) \/ JoinCreate(p) \/ JoinArc(p)

SendStep(p) ==
    \/ SendFindSender(p) \/ SendResolve(p) \/ SendContactPhone(p) \/ SendYellow(p)

AsyncStep(p) ==
    \/ BuyFind(p) \/ BuyHttp(p) \/ SwapFind(p) \/ SwapHttp(p)
    \/ CashoutFind(p) \/ CashoutHttp(p) \/ BridgeFind(p) \/ BridgeHttp(p)

OtherStep(p) ==
    \/ HelpResponse(p) \/ UnknownResponse(p) \/ ChainResponse(p)
    \/ BalanceFind(p) \/ BalanceHttp(p) \/ PinResponse(p)
    \/ DepositResponse(p) \/ HistoryResponse(p)
    \/ RedeemFind(p) \/ RedeemHttp(p)
    \/ SaveResponse(p) \/ ContactsResponse(p)

\* process returns, and nothing is kept of the handled message
Return(p) ==
    /\ pc[p] \in {"done", "panicked"}
    /\ pc' = [pc EXCEPT ![p] = "idle"]
    /\ msg' = [msg EXCEPT ![p] = NoMsg]
    /\ cmd' = [cmd EXCEPT ![p] = NoCmd]
    /\ loc' = [loc EXCEPT ![p] = NoLoc]
    /\ reply' = [reply EXCEPT ![p] = None]
    /\ calls' = [calls EXCEPT ![p] = <<>>]
    /\ UNCHANGED << config, tables, nextWallet, received, outbox >>

\* every command, one message at a time
Next ==
    \/ \E from \in Phones, body \in Bodies : Receive(1, from, body)
    \/ JoinStep(1) \/ SendStep(1) \/ AsyncStep(1) \/ OtherStep(1)
    \/ Return(1)

Spec == Init /\ [][Next]_vars

\* JOIN messages handled concurrently, the handled messages recorded
NextJoin ==
    \E p \in Procs :
        \/ \E from \in Phones, body \in JoinBodies : Receive(p, from, body)
        \/ JoinStep(p)
        \/ Deliver(p)

SpecJoin == Init /\ [][NextJoin]_vars

\* SEND messages one after the other, the handled messages recorded
NextSend ==
    \/ \E from \in Phones, body \in SendBodies : Receive(1, from, body)
    \/ SendStep(1)
    \/ Deliver(1)

SpecSend == Init /\ [][NextSend]_vars

\* SWAP, CASHOUT, BUY and BRIDGE messages one after the other, the handled
\* messages recorded
NextAsync ==
    \/ \E from \in Phones, body \in AsyncBodies : Receive(1, from, body)
    \/ AsyncStep(1)
    \/ Deliver(1)

SpecAsync == Init /\ [][NextAsync]_vars

\* -------------------------------------------------------- the contact book
\* One SAVE and SEND after the other through the contact book: an alias
\* typed in mixed case, one typed in capitals, and a contact the book holds
\* from the start.
ContactBodies ==
    { <<"S","A","V","E"," ","Z","e","d"," ","+","2">>,
      <<"S","E","N","D"," ","1"," ","T","X","T","C"," ","Z","e","d">>,
      <<"S","A","V","E"," ","A","M","Y"," ","+","2">>,
      <<"S","E","N","D"," ","1"," ","T","X","T","C"," ","A","M","Y">>,
      <<"S","E","N","D"," ","1","0"," ","T","X","T","C"," ","b","o","b">> }

NextContacts ==
    \/ \E from \in Phones, body \in ContactBodies : Receive(1, from, body)
    \/ SaveResponse(1)
    \/ SendStep(1)
    \/ Deliver(1)

SpecContacts == Init /\ [][NextContacts]_vars

\* ---------------------------------------- REDEEM through the voucher contract
\* redeem_response_with_contracts(from, code, user_repo, voucher_repo,
\* deposit_repo, provider, entry_point_address, backend_private_key): the
\* three repositories are passed by reference and are always there.  The
\* contract and the chain are the environment: what send() and the pending
\* transaction come back with is drawn from the outcomes below.

HexDigits ==
    { "0","1","2","3","4","5","6","7","8","9","a","b","c","d","e","f",
      "A","B","C","D","E","F" }

\* str::parse::<Address>: 40 hex digits, with or without 0x in front
ParsesAddress(t) ==
    LET h == IF starts_with(t, Prefix0x) THEN From(t, 3) ELSE t
    IN  Len(h) = 40 /\ \A i \in 1..Len(h) : h[i] \in HexDigits

\* format!("{:?}", receipt.transaction_hash)
TxHash == <<"0","x","t","x">>

\* ethers::utils::format_ether(event.eth_amount) of a VoucherRedeemed event
EthRedeemed == <<"0",".","0","1">> \o Zeros(16)

\* redeem_voucher(..).send().await: Ok(pending_tx), an Err whose text holds
\* "invalid code" or "already redeemed", another Err, or no answer at all
SendOutcomes == { "sent", "invalid code", "already redeemed", "err", "never" }

\* pending_tx.await: Ok(Some(receipt)) of a transaction that was mined, with
\* status 1 and a VoucherRedeemed log or with status 0 (reverted) and no
\* log; Ok(None) of a transaction that left the pool; an Err; no answer
Mined(status_ok, eth) == [res |-> IF status_ok THEN "confirmed" ELSE "reverted", eth |-> eth]
NoReceipt == [res |-> "none", eth |-> None]
ReceiptErr == [res |-> "err", eth |-> None]
ReceiptNever == [res |-> "never", eth |-> None]
ReceiptOutcomes ==
    { Mined(TRUE, Some(EthRedeemed)), Mined(FALSE, None), NoReceipt, ReceiptErr, ReceiptNever }

DatabaseError == Fixed("Database error. Try later.")
InvalidVoucher == Fixed("<U+274C> Invalid voucher code.")
VoucherUsed == Fixed("<U+274C> Voucher already used.")
VoucherRedeemedTmpl == "<U+2705> Voucher redeemed!\n\nReceived: {} ETH\nTX: {:?}\n\nReply BALANCE to check."

\* 1. the account of the sender
contracts_find(from, l, db_ok) ==
    LET f == find_by_phone(users, from, db_ok)
        log == << Call("find_by_phone", <<from>>, Found(f)) >>
    IN  IF ~f.ok THEN Ends(DatabaseError, l, log)
        ELSE IF f.row = None
        THEN Ends(Fixed("No wallet found.\nReply JOIN to create one."), l, log)
        ELSE St("contracts_voucher", None, [l EXCEPT !.user = f.row], log)

\* 2. to 4. the voucher of the code, the wallet address and the backend key
contracts_voucher(code, l, db_ok, key_ok) ==
    LET g == get_by_code(vouchers, code, db_ok)
        log == << [Call("get_by_code", <<code>>, Found(g)) EXCEPT !.resp = g.row] >>
    IN  IF ~g.ok THEN Ends(DatabaseError, l, log)
        ELSE IF g.row = None THEN Ends(InvalidVoucher, l, log)
        ELSE IF IsSome(Unwrap(g.row).redeemed_by) THEN Ends(VoucherUsed, l, log)
        ELSE IF ~ParsesAddress(Unwrap(l.user).wallet_address)
        THEN Ends(Fixed("Invalid wallet address."), l, log)
        ELSE IF ~key_ok THEN Ends(Fixed("Backend wallet error."), l, log)
        ELSE St("contracts_send", None, l, log)

\* 5. entry_point.redeem_voucher(code, user_address, true).send().await
contracts_send(code, l, out) ==
    LET log == << Call("redeemVoucher", << code, Unwrap(l.user).wallet_address >>, out) >>
    IN  IF out = "never" THEN Never(l, log)
        ELSE IF out = "sent" THEN St("contracts_receipt", None, l, log)
        ELSE IF out = "invalid code" THEN Ends(InvalidVoucher, l, log)
        ELSE IF out = "already redeemed" THEN Ends(VoucherUsed, l, log)
        ELSE Ends(Fixed("<U+274C> Redemption failed.\nTry again later."), l, log)

\* pending_tx.await
contracts_receipt(l, out) ==
    LET log == << Call("pending_tx", << TxHash >>, out.res) >>
    IN  IF out.res = "never" THEN Never(l, log)
        ELSE IF out.res \in {"confirmed", "reverted"}
        THEN St("contracts_mark", None, [l EXCEPT !.receipt = Some(out)], log)
        ELSE IF out.res = "none"
        THEN Ends(Fixed("<U+23F3> Transaction pending.\nCheck back in 1 minute."), l, log)
        ELSE Ends(Reply("<U+274C> Redemption failed.\nError: {}",
                        << <<"p","r","o","v","i","d","e","r"," ","e","r","r","o","r">> >>), l, log)

\* the eth_amount of the receipt: that of its VoucherRedeemed log, else "0"
eth_amount(l) ==
    IF IsSome(Unwrap(l.receipt).eth) THEN Unwrap(Unwrap(l.receipt).eth) ELSE TextZero

\* 6. voucher_repo.redeem(code, from), an Err only printed
contracts_mark(from, code, l, saved) ==
    St("contracts_record", None, l, << Call("redeem", << code, from >>, OkErr(saved)) >>)

\* 7. and 8. deposit_repo.record_deposit, an Err only printed, and the reply
contracts_record(from, l, saved) ==
    Ends(Reply(VoucherRedeemedTmpl, << eth_amount(l), TxHash >>), l,
         << Call("record_deposit", << from, TxHash, eth_amount(l), TokenETH >>, OkErr(saved)) >>)

\* redeem_response_with_contracts is called for a REDEEM message
ContractsCall(p, from, body) ==
    /\ pc[p] = "idle"
    /\ received < MaxMsgs
    /\ parse(body).kind = "Redeem"
    /\ received' = received + 1
    /\ pc' = [pc EXCEPT ![p] = "contracts"]
    /\ msg' = [msg EXCEPT ![p] = [from |-> from, body |-> body, after |-> Len(outbox)]]
    /\ cmd' = [cmd EXCEPT ![p] = parse(body)]
    /\ loc' = [loc EXCEPT ![p] = NoLoc]
    /\ reply' = [reply EXCEPT ![p] = None]
    /\ calls' = [calls EXCEPT ![p] = <<>>]
    /\ UNCHANGED << config, tables, nextWallet, outbox >>

ContractsFind(p) ==
    /\ At(p, "contracts", "Redeem")
    /\ \E db_ok \in BOOLEAN : Apply(p, contracts_find(msg[p].from, loc[p], db_ok))
    /\ UNCHANGED << config, tables, nextWallet, received, msg, cmd, outbox >>

ContractsVoucher(p) ==
    /\ At(p, "contracts_voucher", "Redeem")
    /\ \E db_ok \in BOOLEAN, key_ok \in BOOLEAN :
         Apply(p, contracts_voucher(cmd[p].code, loc[p], db_ok, key_ok))
    /\ UNCHANGED << config, tables, nextWallet, received, msg, cmd, outbox >>

ContractsSend(p) ==
    /\ At(p, "contracts_send", "Redeem")
    /\ \E out \in SendOutcomes : Apply(p, contracts_send(cmd[p].code, loc[p], out))
    /\ UNCHANGED << config, tables, nextWallet, received, msg, cmd, outbox >>

ContractsReceipt(p) ==
    /\ At(p, "contracts_receipt", "Redeem")
    /\ \E out \in ReceiptOutcomes : Apply(p, contracts_receipt(loc[p], out))
    /\ UNCHANGED << config, tables, nextWallet, received, msg, cmd, outbox >>

ContractsMark(p) ==
    /\ At(p, "contracts_mark", "Redeem")
    /\ \E db_ok \in BOOLEAN :
         LET r == redeem(vouchers, cmd[p].code, msg[p].from, db_ok)
         IN  /\ vouchers' = r.tbl
             /\ Apply(p, contracts_mark(msg[p].from, cmd[p].code, loc[p], r.ok))
    /\ UNCHANGED << config, users, contacts, deposits, nextWallet, received, msg, cmd, outbox >>

ContractsRecord(p) ==
    /\ At(p, "contracts_record", "Redeem")
    /\ \E db_ok \in BOOLEAN :
         LET r == record_deposit(deposits, msg[p].from, eth_amount(loc[p]), db_ok)
         IN  /\ deposits' = r.tbl
             /\ Apply(p, contracts_record(msg[p].from, loc[p], r.ok))
    /\ UNCHANGED << config, users, contacts, vouchers, nextWallet, received, msg, cmd, outbox >>

ContractsStep(p) ==
    \/ ContractsFind(p) \/ ContractsVoucher(p) \/ ContractsSend(p)
    \/ ContractsReceipt(p) \/ ContractsMark(p) \/ ContractsRecord(p)

\* REDEEM messages for a voucher that is there, one that was redeemed, and
\* a code that is not in the table
VoucherBodies ==
    { <<"R","E","D","E","E","M"," ","a","b","c">>,
      <<"R","E","D","E","E","M"," ","u","s","e","d">>,
      <<"R","E","D","E","E","M"," ","n","o","p","e">> }

InitVoucher == Init /\ user_repo /\ address_book_repo

\* REDEEM messages handled concurrently by redeem_response_with_contracts,
\* the handled messages recorded
NextVoucher ==
    \E p \in Procs :
        \/ \E from \in Phones, body \in VoucherBodies : ContractsCall(p, from, body)
        \/ ContractsStep(p)
        \/ Deliver(p)

SpecVoucher == InitVoucher /\ [][NextVoucher]_vars

\* ------------------------------------------------------------ parse alone
\* parse is a public function of the processor and the unit tests call it
\* directly.  Here two texts are drawn at the start, the second a respelling
\* of the first, and each handler slot parses its own.

\* how many argument words follow the keyword
MaxArgs == 3

\* the keywords of parse's match arms, one set per arm
KeywordFamilies ==
    { { <<"C","O","M","M","A","N","D","S">>, <<"M","E","N","U">>, <<"?">> },
      { <<"J","O","I","N">>, <<"S","T","A","R","T">>, <<"R","E","G","I","S","T","E","R">> },
      { <<"B","A","L","A","N","C","E">>, <<"B","A","L">> },
      { <<"P","I","N">> },
      { <<"S","E","N","D">> },
      { <<"D","E","P","O","S","I","T">>, <<"R","E","C","E","I","V","E">> },
      { <<"H","I","S","T","O","R","Y">>, <<"T","R","A","N","S","A","C","T","I","O","N","S">>, <<"T","X","S">> },
      { <<"R","E","D","E","E","M">>, <<"V","O","U","C","H","E","R">>, <<"C","O","D","E">> },
      { <<"S","W","A","P">>, <<"E","X","C","H","A","N","G","E">> },
      { <<"C","A","S","H","O","U","T">>, <<"C","A","S","H">> },
      { <<"B","U","Y">>, <<"T","O","P","U","P">>, <<"P","U","R","C","H","A","S","E">> },
      { <<"B","R","I","D","G","E">>, <<"C","R","O","S","S">> },
      { <<"S","A","V","E">>, <<"A","D","D">> },
      { <<"C","O","N","T","A","C","T","S">>, <<"B","O","O","K">> },
      { <<"C","H","A","I","N">>, <<"N","E","T","W","O","R","K">> } }

Keywords == UNION KeywordFamilies

\* first words that no arm matches
StrangeWords == { <<"H","E","L","P">>, <<"F","O","O">> }

\* a word in upper case, in lower case and with a leading capital
Spellings(w) == { w, to_lowercase(w), <<w[1]>> \o to_lowercase(Tail(w)) }

FirstWords == UNION { Spellings(w) : w \in Keywords \cup StrangeWords }

ArgWords == { <<"1","0">>, <<"t","x","t","c">>, <<"B","o","b">> }

\* longer argument lists: a full BRIDGE, one with a word too many, transfers
LongArgs ==
    { << <<"1","0">>, <<"U","S","D","C">>, <<"F","R","O","M">>, <<"p","o","l","y","g","o","n">>, <<"T","O">>, <<"b","a","s","e">> >>,
      << <<"1","0">>, <<"U","S","D","C">>, <<"F","R","O","M">>, <<"p","o","l","y","g","o","n">>, <<"T","O">>, <<"b","a","s","e">>, <<"n","o","w">> >>,
      << <<"1","0">>, <<"U","S","D","C">>, <<"F","R","O","M">>, <<"p","o","l","y","g","o","n">>, <<"b","a","s","e">> >>,
      << <<"1","0">>, <<"U","S","D","C">>, <<"p","o","l","y","g","o","n">>, <<"b","a","s","e">> >>,
      << <<"1","0">>, <<"U","S","D","C">>, <<"F","R","O","M">>, <<"p","o","l","y","g","o","n">>, <<"T","O">> >>,
      << <<"1","0">>, <<"U","S","D","C">>, <<"F","R","O","M">>, <<"p","o","l","y","g","o","n">> >>,
      << <<"1","0">>, <<"t","x","t","c">>, <<"t","o">>, <<"B","o","b">>, <<"S","m","i","t","h">> >>,
      << <<"1","0">>, <<"t","x","t","c">>, <<"T","O">> >>,
      << <<"M","a","<sharp-s>">> >>,
      << <<"0",".","5">>, <<"e","t","h">>, <<"a","l","i","c","e",".","e","t","h">> >> }

ArgLists == UNION { [1..n -> ArgWords] : n \in 0..MaxArgs } \cup LongArgs

\* the word lists a text is made of: nothing at all, or a first word and arguments
WordLists == { <<>> } \cup { <<k>> \o a : k \in FirstWords, a \in ArgLists }

\* the words as a text, plain or with blanks around them
Spelled(ws, padded) ==
    IF padded THEN <<" ", "\t">> \o JoinSpace(ws) \o <<" ", "\n">> ELSE JoinSpace(ws)

\* the same request spelled otherwise: the keyword in upper case or replaced
\* by another keyword of its arm, and, second, the third word in upper case too
Respellings(ws) ==
    IF ws = <<>> THEN { <<>> }
    ELSE LET up == to_uppercase(ws[1])
             others == IF up \in Keywords
                       THEN UNION { f : f \in { g \in KeywordFamilies : up \in g } }
                       ELSE { up }
             third(k) == IF Len(ws) >= 3
                         THEN { <<k, ws[2], to_uppercase(ws[3])>> \o From(ws, 4) }
                         ELSE {}
         IN  UNION { { <<k>> \o Tail(ws) } \cup third(k) : k \in others }

InitParse ==
    /\ user_repo = FALSE
    /\ address_book_repo = FALSE
    /\ deposit_repo = FALSE
    /\ users = <<>>
    /\ contacts = Book
    /\ deposits = Deposits0
    /\ vouchers = Vouchers0
    /\ nextWallet = 0
    /\ received = 0
    /\ pc = [p \in Procs |-> "idle"]
    /\ \E ws \in WordLists : \E padded \in BOOLEAN : \E other \in Respellings(ws) :
           /\ padded => Len(ws) <= 2
           /\ msg = [p \in Procs |->
                        [from |-> <<>>, after |-> 0,
                         body |-> IF p = 1 THEN Spelled(ws, padded) ELSE Spelled(other, FALSE)]]
    /\ cmd = [p \in Procs |-> NoCmd]
    /\ loc = [p \in Procs |-> NoLoc]
    /\ reply = [p \in Procs |-> None]
    /\ calls = [p \in Procs |-> <<>>]
    /\ outbox = <<>>

\* let command = self.parser().parse(text), called on its own
ParseCall(p) ==
    /\ pc[p] = "idle"
    /\ cmd[p] = NoCmd
    /\ cmd' = [cmd EXCEPT ![p] = parse(msg[p].body)]
    /\ UNCHANGED << user_repo, address_book_repo, deposit_repo, users, contacts,
                    deposits, vouchers, nextWallet, received, pc, msg, loc, reply, calls, outbox >>

NextParse ==
    \/ ParseCall(1)
    \/ ParseCall(2)

SpecParse == InitParse /\ [][NextParse]_vars

\* ------------------------------------------------------- runs of messages
\* One sender, one message after the other: a CHAIN, a DEPOSIT or a request
\* for help, each handled to its end before the next comes in.

\* how many messages such a run has
MaxRuns == 3

RunBodies ==
    { <<"C","H","A","I","N"," ","b","a","s","e">>,
      <<"D","E","P","O","S","I","T">>,
      <<"C","O","M","M","A","N","D","S">> }

NextRuns ==
    \/ \E body \in RunBodies : ReceiveWithin(1, Phone1, body, MaxRuns)
    \/ ChainResponse(1)
    \/ DepositResponse(1)
    \/ HelpResponse(1)
    \/ Deliver(1)

SpecRuns == Init /\ [][NextRuns]_vars

\* ------------------------------------------------------------ properties

\* the messages handled so far and the ones being handled
InFlight(p) ==
    [from |-> msg[p].from, body |-> msg[p].body, after |-> msg[p].after,
     cmd |-> cmd[p], reply |-> reply[p], calls |-> calls[p]]
Ended == { outbox[i] : i \in 1..Len(outbox) }
Handled == Ended \cup { InFlight(p) : p \in { q \in Procs : pc[q] # "idle" } }

Ops(h) == { h.calls[i].op : i \in 1..Len(h.calls) }
HasCall(h, op, res) == \E i \in 1..Len(h.calls) : h.calls[i].op = op /\ h.calls[i].res = res

\* the handler found the account of the sender
SenderFound(h) ==
    /\ h.calls # <<>>
    /\ h.calls[1] = Call("find_by_phone", <<h.from>>, "some")

\* C1: process(from, body) ends with exactly one reply whatever the
\* collaborators do: no handler panics, and a handler that has ended holds
\* a reply.
C1_ProcessAlwaysReplies ==
    \A p \in Procs :
        /\ pc[p] # "panicked"
        /\ pc[p] = "done" => IsSome(reply[p])

\* C2: every downstream request of a synchronous command carries a timeout,
\* so no handler is left waiting for ever on a service that never answers.
C2_EveryCallBounded ==
    \A p \in Procs :
        /\ pc[p] # "never"
        /\ \A i \in 1..Len(calls[p]) : calls[p][i].res # "never"

\* C3: for SWAP, CASHOUT and BUY from a phone with an account the reply is
\* the acknowledgement built from the parsed amount and token only, whatever
\* the downstream call came back with.
C3_AckWhateverDownstream ==
    \A h \in Ended :
        (h.cmd.kind \in {"Swap", "Cashout", "Buy"} /\ SenderFound(h)) =>
            /\ Len(h.calls) = 2
            /\ IsSome(h.reply)
            /\ h.cmd.kind = "Swap" =>
                 Unwrap(h.reply) =
                     Reply("Swapping {} {}...\n\nYou'll get an SMS when complete.\n\nThis may take 30 seconds.",
                           << DisplayF64(h.cmd.amount), h.cmd.token >>)
            /\ h.cmd.kind = "Cashout" =>
                 Unwrap(h.reply) =
                     Reply("Cashing out {} {}...\n\nTXTC -> USDC on Arc via Circle CCTP.\nYou'll get an SMS when complete.\n\nThis may take 1-2 minutes.",
                           << DisplayF64(h.cmd.amount), to_uppercase(h.cmd.token) >>)
            /\ h.cmd.kind = "Buy" =>
                 Unwrap(h.reply) =
                     Reply("Buying TXTC with <euro>{:.0} airtime...\n\nYou'll get an SMS when complete.",
                           << DisplayFixed(h.cmd.amount, 0) >>)
            /\ \A g \in Ended : (g.cmd = h.cmd /\ SenderFound(g)) => g.reply = h.reply

\* a SWAP whose downstream call timed out, and one it failed explicitly,
\* both acknowledged
C3_Witness ==
    /\ \E h \in Ended :
         /\ h.cmd.kind = "Swap" /\ HasCall(h, "POST /api/swap", "timeout")
         /\ IsSome(h.reply)
    /\ \E h \in Ended :
         /\ h.cmd.kind = "Swap" /\ HasCall(h, "POST /api/swap", "fail")
         /\ IsSome(h.reply)

\* C4: the reply to BRIDGE from a phone with an account is the same
\* acknowledgement whether the bridge call succeeds, reports failure, fails
\* in transport or times out.
C4_BridgeAckWhateverDownstream ==
    \A g, h \in Ended :
        ( /\ g.cmd.kind = "Bridge" /\ g.cmd = h.cmd
          /\ SenderFound(g) /\ SenderFound(h) ) => g.reply = h.reply

\* the rows of the users table that hold a phone
RowsOf(phone) == { k \in 1..Len(users) : users[k].phone = phone }
AddressesOf(phone) == { users[k].wallet_address : k \in RowsOf(phone) }

JoinNoAlias(h) == h.cmd.kind = "Join" /\ h.cmd.ens_name = None
NoDbError(h) == \A i \in 1..Len(h.calls) : h.calls[i].res # "err"
Creates(h) == { i \in 1..Len(h.calls) : h.calls[i].op = "create" }

\* the address a reply displays, if it displays one
Shows(h, address) ==
    /\ IsSome(h.reply)
    /\ Unwrap(h.reply).args # <<>>
    /\ Unwrap(h.reply).args[1] = address

\* C5: a phone without an account sends JOIN twice, the second after the
\* first has ended, and the directory works: both replies show the same
\* address, create is called once, and the phone has one account.
C5_SequentialJoinIdempotent ==
    \A i, j \in 1..Len(outbox) :
        LET a == outbox[i]
            b == outbox[j]
        IN  ( /\ i < j /\ b.after >= i
              /\ a.from = b.from /\ JoinNoAlias(a) /\ JoinNoAlias(b)
              /\ user_repo /\ NoDbError(a) /\ NoDbError(b)
              /\ HasCall(a, "find_by_phone", "none") ) =>
                /\ \E address \in AddressesOf(a.from) : Shows(a, address) /\ Shows(b, address)
                /\ Cardinality(Creates(a)) + Cardinality(Creates(b)) = 1
                /\ Cardinality(RowsOf(a.from)) = 1

\* C6: two JOIN messages from a phone without an account, handled at the
\* same time over a directory whose create rejects a second account: once
\* both have ended the phone has at most one account, exactly one if the
\* directory did not fail, and every reply that shows an address shows the
\* stored one.
C6_ConcurrentJoinOneAccount ==
    \A i, j \in 1..Len(outbox) :
        LET a == outbox[i]
            b == outbox[j]
        IN  ( /\ i # j /\ a.from = b.from /\ JoinNoAlias(a) /\ JoinNoAlias(b)
              /\ HasCall(a, "find_by_phone", "none") ) =>
                /\ Cardinality(RowsOf(a.from)) <= 1
                /\ (NoDbError(a) /\ NoDbError(b)) => Cardinality(RowsOf(a.from)) = 1
                /\ \A h \in {a, b} :
                     (IsSome(h.reply) /\ Unwrap(h.reply).args # <<>>) =>
                         \E address \in AddressesOf(h.from) : Shows(h, address)

\* both handlers saw no account, one create was stored and the other was
\* rejected as a duplicate
C6_Witness ==
    \E i, j \in 1..Len(outbox) :
        LET a == outbox[i]
            b == outbox[j]
        IN  /\ i # j /\ a.from = b.from /\ JoinNoAlias(a) /\ JoinNoAlias(b)
            /\ HasCall(a, "find_by_phone", "none") /\ HasCall(b, "find_by_phone", "none")
            /\ HasCall(a, "create", "ok") /\ HasCall(b, "create", "dup")
            /\ \E address \in AddressesOf(a.from) : Shows(a, address)
            /\ b.reply = Some(Fixed("Error saving wallet."))

IsSend(h) == h.cmd.kind = "Send"
Yellow == "POST /api/send-yellow"

\* the calls a SEND handler makes after the lookup of its sender
LaterOps(h) == { h.calls[i].op : i \in 2..Len(h.calls) }

\* C7: the recipient of SEND is resolved by the first strategy that matches,
\* in the order literal address, phone, dotted name, contact, and by no
\* other: an address-shaped recipient causes no lookup at all, a '+'
\* recipient only a directory lookup, a dotted one only a name-service
\* request, and any other only the contact book and the directory.
C7_FirstStrategyOnly ==
    \A h \in Handled :
        IsSend(h) =>
            LET r == h.cmd.recipient
            IN  IF starts_with(r, <<"0","x">>) /\ len(r) = 42
                THEN /\ LaterOps(h) \subseteq {Yellow}
                     /\ \A i \in 2..Len(h.calls) : h.calls[i].args[2] = r
                ELSE IF starts_with(r, <<"+">>)
                THEN /\ LaterOps(h) \subseteq {"find_by_phone", Yellow}
                     /\ \A i \in 2..Len(h.calls) :
                          h.calls[i].op = "find_by_phone" => h.calls[i].args = <<r>>
                ELSE IF contains(r, <<".">>)
                THEN LaterOps(h) \subseteq {"GET /api/ens/resolve", Yellow}
                ELSE /\ LaterOps(h) \subseteq {"find_by_name", "find_by_phone", Yellow}
                     /\ (Len(h.calls) >= 2 /\ address_book_repo) => h.calls[2].op = "find_by_name"

\* a SEND to an address-shaped text that is also the name of a contact of the
\* sender went to settlement with no lookup, one to a '+' text that is a
\* contact's name went through the directory, and one to a dotted contact
\* name through the name service
C7_Witness ==
    /\ \E h \in Ended :
         /\ IsSend(h) /\ h.cmd.recipient = AddressShaped
         /\ \E k \in 1..Len(contacts) :
              contacts[k].owner_phone = h.from /\ contacts[k].name = AddressShaped
         /\ Len(h.calls) = 2 /\ h.calls[2].op = Yellow
    /\ \E h \in Handled :
         /\ IsSend(h) /\ h.cmd.recipient = Phone2 /\ h.from = Phone1
         /\ Len(h.calls) = 2 /\ h.calls[2].op = "find_by_phone"

\* what a recipient may resolve to in the state: itself when it is shaped
\* like an address, the directory's address for a phone, the name service's
\* address for a dotted name, and for a contact of the sender its saved
\* address or else the address of its phone's account
ResolvesTo(from, r) ==
    IF starts_with(r, <<"0","x">>) /\ len(r) = 42 THEN {r}
    ELSE IF starts_with(r, <<"+">>) THEN AddressesOf(r)
    ELSE IF contains(r, <<".">>) THEN {EnsAddress}
    ELSE UNION { IF IsSome(contacts[k].wallet_address)
                 THEN { Unwrap(contacts[k].wallet_address) }
                 ELSE IF IsSome(contacts[k].contact_phone)
                 THEN AddressesOf(Unwrap(contacts[k].contact_phone))
                 ELSE {} :
                 k \in { n \in 1..Len(contacts) :
                           contacts[n].owner_phone = from /\ contacts[n].name = r } }

\* C8: a SEND handler posts to /api/send-yellow only as its last call, with
\* the directory configured, after the sender's account was found and every
\* lookup of the recipient succeeded, from the sender's stored address to
\* the address the recipient resolves to; a handler whose directory is
\* absent or failed, whose sender has no account or whose recipient did not
\* resolve posts nothing.
C8_SettlementOnlyAfterResolution ==
    \A h \in Handled :
        IsSend(h) =>
            \A i \in 1..Len(h.calls) :
                h.calls[i].op = Yellow =>
                    /\ user_repo
                    /\ i > 1 /\ i = Len(h.calls)
                    /\ SenderFound(h)
                    /\ \A j \in 1..(i - 1) : h.calls[j].op # Yellow /\ h.calls[j].res = "some"
                    /\ h.calls[i].args[1] \in AddressesOf(h.from)
                    /\ h.calls[i].args[2] \in ResolvesTo(h.from, h.cmd.recipient)

\* a SEND to a phone with an account and one to a dotted name the service
\* resolved, both posted to settlement
C8_Witness ==
    /\ \E h \in Handled :
         /\ IsSend(h) /\ h.cmd.recipient = Phone2
         /\ Len(h.calls) = 3 /\ h.calls[3].op = Yellow
    /\ \E h \in Handled :
         /\ IsSend(h) /\ contains(h.cmd.recipient, <<".">>)
         /\ Len(h.calls) = 3 /\ h.calls[3].op = Yellow

\* C9: when the recipient of SEND starts with '+', the directory answers and
\* holds no account for that phone, the reply says that the recipient has
\* not joined and to ask them to text JOIN, and nothing is posted to
\* settlement.
C9_UnknownPhoneAskToJoin ==
    \A h \in Handled :
        ( /\ IsSend(h) /\ starts_with(h.cmd.recipient, <<"+">>)
          /\ Len(h.calls) >= 2 /\ h.calls[2].res # "err"
          /\ RowsOf(h.cmd.recipient) = {} ) =>
            /\ h.reply = Some(Reply("{} hasn't joined yet.\nAsk them to text JOIN",
                                    << h.cmd.recipient >>))
            /\ Len(h.calls) = 2
            /\ Yellow \notin Ops(h)

\* a SEND to +2 from a sender with an account, +2 having none, has ended
C9_Witness ==
    \E h \in Ended :
        /\ IsSend(h) /\ h.cmd.recipient = Phone2 /\ SenderFound(h)
        /\ RowsOf(Phone2) = {}
        /\ Len(h.calls) = 2 /\ h.calls[2] = Call("find_by_phone", <<Phone2>>, "none")
        /\ IsSome(h.reply)

\* C10: a SEND to a contact that holds only a phone ends as a SEND to that
\* phone typed directly does when the directory answers the lookup of the
\* phone the same way: the same address goes to settlement when the account
\* is found, and the same kind of reply is given when it is not found or the
\* lookup fails.
C10_ContactPhoneAsTypedPhone ==
    \A a, b \in Ended :
        ( /\ IsSend(a) /\ IsSend(b) /\ a.from = b.from
          /\ SenderFound(a) /\ SenderFound(b)
          /\ starts_with(a.cmd.recipient, <<"+">>)
          /\ Len(a.calls) >= 2
          /\ Len(b.calls) >= 3
          /\ b.calls[2] = Call("find_by_name", << b.from, b.cmd.recipient >>, "some")
          /\ b.calls[3].op = "find_by_phone"
          /\ b.calls[3].args = << a.cmd.recipient >>
          /\ b.calls[3].res = a.calls[2].res ) =>
            IF a.calls[2].res = "some"
            THEN /\ Len(a.calls) = 3 /\ Len(b.calls) = 4
                 /\ a.calls[3].op = Yellow /\ b.calls[4].op = Yellow
                 /\ a.calls[3].args[2] = b.calls[4].args[2]
            ELSE /\ IsSome(a.reply) /\ IsSome(b.reply)
                 /\ Unwrap(a.reply).tmpl = Unwrap(b.reply).tmpl

\* a SEND whose recipient goes to the name service, and how that answered
DottedSend(h, res) ==
    /\ IsSend(h)
    /\ ~(starts_with(h.cmd.recipient, <<"0","x">>) /\ len(h.cmd.recipient) = 42)
    /\ ~starts_with(h.cmd.recipient, <<"+">>)
    /\ contains(h.cmd.recipient, <<".">>)
    /\ Len(h.calls) >= 2
    /\ h.calls[2].op = "GET /api/ens/resolve" /\ h.calls[2].res = res

\* C11: for a dotted SEND recipient, a name the service answers without an
\* address and a service that cannot be reached get two different replies,
\* and neither is followed by a settlement request.
C11_UnresolvedAndUnreachableDiffer ==
    /\ \A h \in Handled :
         (DottedSend(h, "none") \/ DottedSend(h, "err")) =>
             /\ IsSome(h.reply)
             /\ Len(h.calls) = 2
             /\ Yellow \notin Ops(h)
    /\ \A g, h \in Handled :
         (DottedSend(g, "none") /\ DottedSend(h, "err") /\ g.cmd = h.cmd) =>
             g.reply # h.reply

\* the same SEND to a dotted name has ended once with the name unresolved
\* and once with the service unreachable
C11_Witness ==
    \E g, h \in Ended :
        /\ DottedSend(g, "none") /\ DottedSend(h, "err") /\ g.cmd = h.cmd
        /\ IsSome(g.reply) /\ IsSome(h.reply)

\* the keywords by which a downstream error text is classified
Vocabulary ==
    { <<"i","n","s","u","f","f","i","c","i","e","n","t">>,
      <<"b","a","l","a","n","c","e">>,
      <<"a","l","r","e","a","d","y"," ","r","e","d","e","e","m","e","d">>,
      <<"n","o","t"," ","f","o","u","n","d">>,
      <<"i","n","v","a","l","i","d">>,
      <<"s","l","i","p","p","a","g","e">> }

Unclassified(text) == \A k \in Vocabulary : ~contains(text, k)

\* two handled messages that made the same calls with the same outcomes and
\* were told different free texts, none of them holding a keyword
DifferInFreeTextOnly(g, h) ==
    /\ g.from = h.from /\ g.cmd = h.cmd
    /\ Len(g.calls) = Len(h.calls)
    /\ \A i \in 1..Len(g.calls) :
         /\ g.calls[i].op = h.calls[i].op
         /\ g.calls[i].args = h.calls[i].args
         /\ g.calls[i].res = h.calls[i].res
         /\ g.calls[i].text # h.calls[i].text =>
              /\ IsSome(g.calls[i].text) /\ IsSome(h.calls[i].text)
              /\ Unclassified(Unwrap(g.calls[i].text))
              /\ Unclassified(Unwrap(h.calls[i].text))

\* C12: two handlings of the same command that differ only in the free
\* error text a downstream service returned, neither text holding a
\* vocabulary keyword, end with the same reply.
C12_NoRawDownstreamText ==
    \A g, h \in Ended : DifferInFreeTextOnly(g, h) => g.reply = h.reply

\* the text a failed call is classified by: result["error"], or "Unknown error"
ErrorMsg(c) ==
    IF IsSome(c.text) THEN Unwrap(c.text)
    ELSE <<"U","n","k","n","o","w","n"," ","e","r","r","o","r">>

Has(text, word) == contains(text, word)

\* the reply the vocabulary gives for an error text, with the command's
\* generic reply for a text that matches nothing
Classified(text, generic) ==
    IF Has(text, <<"i","n","s","u","f","f","i","c","i","e","n","t">>)
       \/ Has(text, <<"b","a","l","a","n","c","e">>)
    THEN Fixed("Insufficient balance.")
    ELSE IF Has(text, <<"a","l","r","e","a","d","y"," ","r","e","d","e","e","m","e","d">>)
    THEN Fixed("Voucher already used.")
    ELSE IF Has(text, <<"n","o","t"," ","f","o","u","n","d">>)
            \/ Has(text, <<"i","n","v","a","l","i","d">>)
    THEN Fixed("Invalid voucher code.")
    ELSE IF Has(text, <<"s","l","i","p","p","a","g","e">>)
    THEN Fixed("Price moved too much. Try again.")
    ELSE generic

\* C13: when the settlement call of SEND or the voucher call of REDEEM
\* reports success=false, the reply is the one the vocabulary gives for the
\* error text, and the command's "... failed. Try later." for any other text.
C13_FailureClassifiedByVocabulary ==
    \A h \in Handled :
        \A i \in 1..Len(h.calls) :
            /\ (h.calls[i].op = Yellow /\ h.calls[i].res = "fail") =>
                 h.reply = Some(Classified(ErrorMsg(h.calls[i]), Fixed("Transfer failed. Try later.")))
            /\ (h.calls[i].op = "POST /api/redeem" /\ h.calls[i].res = "fail") =>
                 h.reply = Some(Classified(ErrorMsg(h.calls[i]), Fixed("Redemption failed. Try later.")))

\* the commands that need the sender's account
AccountCommands ==
    { "Balance", "Pin", "Send", "Deposit", "History", "Redeem", "Swap", "Cashout",
      "Buy", "Bridge", "Save", "Contacts", "SwitchChain" }

\* a command whose arguments pass the checks of its handler: a PIN of 4 to 6
\* digits, a supported SEND token, a known chain
WellFormed(c) ==
    /\ c.kind = "Pin" =>
         /\ IsSome(c.new_pin)
         /\ len(Unwrap(c.new_pin)) >= 4 /\ len(Unwrap(c.new_pin)) <= 6
         /\ \A i \in 1..Len(Unwrap(c.new_pin)) : IsDigit(Unwrap(c.new_pin)[i])
    /\ c.kind = "Send" =>
         to_uppercase(c.token) \in { <<"T","X","T","C">>, <<"E","T","H">> }
    /\ c.kind = "SwitchChain" => to_lowercase(c.chain) \in ChainNames

\* C14: a well-formed command other than Help and JOIN, sent from a phone
\* without an account while the repositories are configured and answer, is
\* replied with "No wallet. Reply JOIN first." and makes no call but the
\* lookup of the sender.
C14_NoAccountNoAction ==
    \A p \in Procs :
        ( /\ pc[p] = "done" /\ cmd[p].kind \in AccountCommands
          /\ WellFormed(cmd[p])
          /\ user_repo /\ address_book_repo /\ deposit_repo
          /\ NoDbError(InFlight(p))
          /\ RowsOf(msg[p].from) = {} ) =>
            /\ reply[p] = Some(NoWallet)
            /\ Ops(InFlight(p)) \subseteq {"find_by_phone"}

\* the fixed replies of a command that cannot reach the account directory
OfflineReplies ==
    { DbOffline, ErrorTryLater,
      Fixed("Balance: $0.00\nDB offline."),
      Fixed("DB offline. Reply JOIN first."),
      Fixed("Address book offline.") }

\* the account directory is not configured, or the lookup of the sender failed
DirectoryUnavailable(h) ==
    \/ ~user_repo
    \/ /\ h.calls # <<>>
       /\ h.calls[1].op = "find_by_phone" /\ h.calls[1].args = << h.from >>
       /\ h.calls[1].res = "err"

\* C15: while the account directory is unavailable, every well-formed
\* command other than Help and an unrecognized one ends with one of the
\* fixed offline or try-later replies.
C15_DirectoryUnavailableFixedReply ==
    \A p \in Procs :
        ( /\ pc[p] = "done" /\ cmd[p].kind \notin {"Help", "Unknown"}
          /\ WellFormed(cmd[p])
          /\ DirectoryUnavailable(InFlight(p)) ) =>
            /\ IsSome(reply[p])
            /\ Unwrap(reply[p]) \in OfflineReplies

\* a text of 4 to 6 digits
FourToSixDigits(t) ==
    /\ Len(t) \in 4..6
    /\ \A i \in 1..Len(t) : t[i] \in {"0","1","2","3","4","5","6","7","8","9"}

\* C16: PIN with an argument that is not 4 to 6 digits is replied exactly
\* "PIN must be 4-6 digits.\nExample: PIN 1234", PIN without an argument is
\* replied the prompt, and in both cases update_pin is not called.
C16_InvalidPinRejected ==
    \A p \in Procs :
        (pc[p] = "done" /\ cmd[p].kind = "Pin") =>
            /\ cmd[p].new_pin = None =>
                 /\ reply[p] = Some(Fixed("Reply: PIN <4-6 digits>\nExample: PIN 1234"))
                 /\ calls[p] = <<>>
            /\ (IsSome(cmd[p].new_pin) /\ ~FourToSixDigits(Unwrap(cmd[p].new_pin))) =>
                 /\ reply[p] = Some(Fixed("PIN must be 4-6 digits.\nExample: PIN 1234"))
                 /\ calls[p] = <<>>
                 /\ \A k \in 1..Len(users) : users[k].pin_hash # Some(PinHash(Unwrap(cmd[p].new_pin)))

\* "PIN 12" has been answered, with the directory configured
C16_Witness ==
    \E p \in Procs :
        /\ pc[p] = "done" /\ cmd[p] = Pin(Some(<<"1","2">>))
        /\ user_repo /\ RowsOf(msg[p].from) # {}
        /\ IsSome(reply[p])

\* the usage texts parse gives for arguments that do not fit a family
UsageTexts ==
    { UsageRedeem, UsageChain, UsageSave, UsageSend, UsageBridge, UsageBridgeShort,
      UsageBuy, UsageSwap, UsageCashout }

\* a reply that is exactly the text
Verbatim(text) == Reply("{}", << text >>)

\* C17: when the arguments of a command family do not fit, the reply of
\* process is the usage text of the family in full; "REDEEM" without a code
\* is replied exactly "Usage: REDEEM <code>".
C17_UsageInFull ==
    \A p \in Procs :
        pc[p] = "done" =>
            /\ (cmd[p].kind = "Unknown" /\ cmd[p].text \in UsageTexts) =>
                 reply[p] = Some(Verbatim(cmd[p].text))
            /\ to_uppercase(trim(msg[p].body)) = <<"R","E","D","E","E","M">> =>
                 reply[p] = Some(Verbatim(UsageRedeem))

\* ---- parse on its own (SpecParse)

\* the variants of the Command enum
CommandKinds ==
    { "Help", "Join", "Balance", "Pin", "Send", "Deposit", "History", "Redeem",
      "Swap", "Cashout", "Buy", "Bridge", "Save", "Contacts", "SwitchChain", "Unknown" }

Parsed(p) == cmd[p] # NoCmd
Blank(text) == \A i \in 1..Len(text) : IsWhitespace(text[i])
Words(p) == split_whitespace(msg[p].body)

\* C18: parse is total.  Whatever the text (empty, blank, a keyword with too
\* few or too many arguments, a first word that is no keyword) parse returns
\* one of the Command variants; an empty or blank text gives Unknown("") and
\* a first word that is no keyword gives Unknown.
C18_ParseTotal ==
    \A p \in Procs :
        Parsed(p) =>
            /\ cmd[p].kind \in CommandKinds
            /\ Blank(msg[p].body) => cmd[p] = Unknown(<<>>)
            /\ (~Blank(msg[p].body) /\ to_uppercase(Words(p)[1]) \notin Keywords)
                   => cmd[p] = Unknown(to_uppercase(trim(msg[p].body)))

\* a text of blanks only and the empty text have both been parsed
C18_Witness ==
    /\ Parsed(1) /\ Parsed(2)
    /\ msg[1].body # <<>> /\ Blank(msg[1].body)
    /\ msg[2].body = <<>>
    /\ cmd[1] = Unknown(<<>>) /\ cmd[2] = Unknown(<<>>)

\* the two texts start with keywords of one match arm, in whatever case
SameFamily ==
    /\ Words(1) # <<>> /\ Words(2) # <<>>
    /\ \E f \in KeywordFamilies :
           to_uppercase(Words(1)[1]) \in f /\ to_uppercase(Words(2)[1]) \in f

\* C19: two texts that start with keywords of the same family, in any letter
\* case, and go on with the same arguments parse to the same Command.
C19_SynonymsParseAlike ==
    (Parsed(1) /\ Parsed(2) /\ SameFamily /\ Tail(Words(1)) = Tail(Words(2)))
        => cmd[1] = cmd[2]

\* "start Bob"-like and "REGISTER Bob"-like texts have both been parsed to the
\* same Join with a name
C19_Witness ==
    /\ Parsed(1) /\ Parsed(2) /\ SameFamily
    /\ Tail(Words(1)) = Tail(Words(2))
    /\ to_uppercase(Words(1)[1]) # Words(2)[1]
    /\ Words(1)[1] # to_uppercase(Words(1)[1])
    /\ cmd[1].kind = "Join" /\ IsSome(cmd[1].ens_name)
    /\ cmd[1] = cmd[2]

\* C20: two SEND texts that differ only in the letter case of the keyword and
\* of the token symbol parse to Send commands with the same amount and the
\* same token.
C20_SendCaseInsensitive ==
    ( /\ Parsed(1) /\ Parsed(2)
      /\ cmd[1].kind = "Send" /\ cmd[2].kind = "Send"
      /\ Len(Words(1)) = Len(Words(2))
      /\ eq_ignore_ascii_case(Words(1)[1], Words(2)[1])
      /\ Words(1)[2] = Words(2)[2]
      /\ eq_ignore_ascii_case(Words(1)[3], Words(2)[3])
      /\ to_uppercase(Words(1)[3]) \in { TokenTXTC, TokenETH }
      /\ From(Words(1), 4) = From(Words(2), 4) )
        => /\ cmd[1].amount = cmd[2].amount
           /\ cmd[1].token = cmd[2].token

\* the first word of the text of p is the keyword kw, in whatever case
Keyword(p, kw) == Words(p) # <<>> /\ to_uppercase(Words(p)[1]) = kw

\* a decimal numeral: digits with at most one point among them
Numeric(w) ==
    /\ \A i \in 1..Len(w) : IsDigit(w[i]) \/ w[i] = "."
    /\ \E i \in 1..Len(w) : IsDigit(w[i])
    /\ \A i, j \in 1..Len(w) : (w[i] = "." /\ w[j] = ".") => i = j

\* C21: a SEND text of fewer than 4 words parses to Unknown with the usage
\* text, whatever stands in the amount's place, and a SEND text of 4 or more
\* words with a numeric amount parses to a Send.
C21_SendArgumentCount ==
    \A p \in Procs :
        (Parsed(p) /\ Keyword(p, <<"S","E","N","D">>)) =>
            /\ Len(Words(p)) < 4 => cmd[p] = Unknown(UsageSend)
            /\ (Len(Words(p)) >= 4 /\ Numeric(Words(p)[2])) => cmd[p].kind = "Send"

\* a SEND of three words whose amount is no number has been parsed
C21_Witness ==
    /\ Parsed(1) /\ Keyword(1, <<"S","E","N","D">>)
    /\ Len(Words(1)) = 3 /\ ~Numeric(Words(1)[2])
    /\ cmd[1] = Unknown(UsageSend)

\* the text of p is a SEND that parse has made a Send of
ParsedSend(p) == Parsed(p) /\ Keyword(p, <<"S","E","N","D">>) /\ cmd[p].kind = "Send"

\* C22: in a SEND a TO in the fourth place, in any case, is skipped whenever
\* it is there: the recipient is the words after it joined by single spaces,
\* and without a TO the words from the fourth on; the recipient is never the
\* skipped TO itself.
C22_ToIsSkipped ==
    \A p \in Procs :
        ParsedSend(p) =>
            IF eq_ignore_ascii_case(Words(p)[4], KwTO)
            THEN /\ cmd[p].recipient = JoinSpace(From(Words(p), 5))
                 /\ cmd[p].recipient # Words(p)[4]
            ELSE cmd[p].recipient = JoinSpace(From(Words(p), 4))

\* the first word of the text of p is one of the keywords kws, in whatever case
KeywordIn(p, kws) == Words(p) # <<>> /\ to_uppercase(Words(p)[1]) \in kws

\* a text of the family kws is taken for a command of kind k with exactly n
\* words, and for Unknown with fewer or with more
ExactlyWords(p, kws, n, k) ==
    (Parsed(p) /\ KeywordIn(p, kws)) =>
        /\ Len(Words(p)) # n => cmd[p].kind = "Unknown"
        /\ (Len(Words(p)) = n /\ Numeric(Words(p)[2])) => cmd[p].kind = k

\* C23: SWAP and CASHOUT are accepted with exactly 3 words and BUY with
\* exactly 2; with fewer or with more words the text parses to Unknown.
C23_ExactArgumentCount ==
    \A p \in Procs :
        /\ ExactlyWords(p, { <<"S","W","A","P">>, <<"E","X","C","H","A","N","G","E">> }, 3, "Swap")
        /\ ExactlyWords(p, { <<"C","A","S","H","O","U","T">>, <<"C","A","S","H">> }, 3, "Cashout")
        /\ ExactlyWords(p, { <<"B","U","Y">>, <<"T","O","P","U","P">>, <<"P","U","R","C","H","A","S","E">> }, 2, "Buy")

BridgeKeywords == { <<"B","R","I","D","G","E">>, <<"C","R","O","S","S">> }

\* word i of the text of p as parse's keyword view has it
Up(p, i) == to_uppercase(Words(p)[i])

\* C24: BRIDGE takes the three forms FROM x TO y, FROM x y and x y, tried in
\* that order by looking for FROM in the fourth place and TO in the sixth;
\* with a numeric amount each form parses to a Bridge of that amount, the
\* token, x as the source chain and y as the destination.
C24_BridgeForms ==
    \A p \in Procs :
        (Parsed(p) /\ KeywordIn(p, BridgeKeywords) /\ Len(Words(p)) >= 5 /\ Numeric(Words(p)[2])) =>
            LET a == ParseF64(Words(p)[2]).v
                n == Len(Words(p))
            IN  IF n >= 7 /\ Up(p, 4) = KwFROM /\ Up(p, 6) = KwTO
                THEN cmd[p] = Bridge(a, Up(p, 3), Up(p, 5), Up(p, 7))
                ELSE IF n >= 6 /\ Up(p, 4) = KwFROM
                THEN cmd[p] = Bridge(a, Up(p, 3), Up(p, 5), Up(p, 6))
                ELSE cmd[p] = Bridge(a, Up(p, 3), Up(p, 4), Up(p, 5))

\* a bridge text of the form FROM x TO y has been parsed
C24_Witness ==
    /\ Parsed(1) /\ KeywordIn(1, BridgeKeywords)
    /\ Len(Words(1)) = 7 /\ Up(1, 4) = KwFROM /\ Up(1, 6) = KwTO
    /\ cmd[1].kind = "Bridge"
    /\ cmd[1].from_chain = <<"P","O","L","Y","G","O","N">>
    /\ cmd[1].to_chain = <<"B","A","S","E">>

\* C25: the recipient of a parsed Send is the recipient words as they were
\* typed, joined by single spaces, whatever the case of the keyword.
C25_RecipientAsTyped ==
    \A p \in Procs :
        ParsedSend(p) =>
            cmd[p].recipient \in { JoinSpace(From(Words(p), 4)), JoinSpace(From(Words(p), 5)) }

\* a send in lower case to a recipient typed with a capital has been parsed
C25_Witness ==
    /\ ParsedSend(1)
    /\ Words(1)[1] = <<"s","e","n","d">>
    /\ cmd[1].recipient = <<"B","o","b">>
    /\ cmd[1].recipient # to_uppercase(cmd[1].recipient)

\* C26: SAVE takes the name from the second word and the phone from all the
\* words after it joined by single spaces, and REDEEM the code from the
\* second word, each as the user typed it, in its original letter case.
C26_LiteralArgumentsAsTyped ==
    \A p \in Procs :
        Parsed(p) =>
            /\ (KeywordIn(p, { <<"S","A","V","E">>, <<"A","D","D">> }) /\ Len(Words(p)) >= 3)
                   => cmd[p] = Save(Words(p)[2], JoinSpace(From(Words(p), 3)))
            /\ (KeywordIn(p, { <<"R","E","D","E","E","M">>, <<"V","O","U","C","H","E","R">>, <<"C","O","D","E">> })
                    /\ Len(Words(p)) >= 2)
                   => cmd[p] = Redeem(Words(p)[2])

JoinKeywords == { <<"J","O","I","N">>, <<"S","T","A","R","T">>, <<"R","E","G","I","S","T","E","R">> }

\* C27: JOIN, START or REGISTER followed by an alias in any letter case
\* parses to Join with the alias in lower case, and without an alias to Join
\* with no alias; what follows the alias is ignored.
C27_JoinAliasLowercased ==
    \A p \in Procs :
        (Parsed(p) /\ KeywordIn(p, JoinKeywords)) =>
            cmd[p] = Join(IF Len(Words(p)) >= 2 THEN Some(to_lowercase(Words(p)[2])) ELSE None)

\* ---- the alias sub-flow of JOIN (Spec)

\* the message is a JOIN with an alias
JoinAlias(h) == h.cmd.kind = "Join" /\ IsSome(h.cmd.ens_name)

\* an alias of 3 to 20 characters, letters and digits only
AliasFormatOk(name) ==
    /\ Len(name) >= 3 /\ Len(name) <= 20
    /\ \A i \in 1..Len(name) : IsAlphanumeric(name[i])

\* call i of h is op, and an earlier call op0 came back as one of rs
Preceded(h, i, op0, rs) ==
    \E j \in 1..(i - 1) : h.calls[j].op = op0 /\ h.calls[j].res \in rs

\* C28: the alias sub-flow of JOIN is gated by the format validation and
\* runs availability check, then register, then persist: an alias shorter
\* than 3 or longer than 20 characters or not purely alphanumeric causes no
\* collaborator call at all; register is never requested before the check
\* has returned; update_ens_name is never called unless register succeeded.
C28_AliasFlowGatedAndOrdered ==
    \A h \in Handled :
        JoinAlias(h) =>
            /\ ~AliasFormatOk(Unwrap(h.cmd.ens_name)) => h.calls = <<>>
            /\ \A i \in 1..Len(h.calls) :
                   /\ h.calls[i].op = "POST /api/ens/register"
                          => Preceded(h, i, "GET /api/ens/check", {"ok", "fail", "bad"})
                   /\ h.calls[i].op = "update_ens_name"
                          => Preceded(h, i, "POST /api/ens/register", {"ok"})

\* ---- one attempt per call (Spec)

\* the HTTP endpoints and the repository writes
Endpoints ==
    { "GET /api/balance", "POST /api/send-yellow", "POST /api/redeem", "POST /api/swap",
      "POST /api/buy", "POST /api/bridge", "POST /api/arc/cashout", "POST /api/arc/wallet",
      "GET /api/ens/check", "POST /api/ens/register", "GET /api/ens/resolve" }
Writes == { "create", "update_ens_name", "update_pin", "add_contact" }

\* C29: no retries.  While one message is handled each HTTP endpoint is
\* requested at most once and each repository write is attempted at most
\* once, whatever the call returns.
C29_NoRetries ==
    \A h \in Handled :
        \A i, j \in 1..Len(h.calls) :
            (h.calls[i].op = h.calls[j].op /\ h.calls[i].op \in Endpoints \cup Writes) => i = j

\* a message has ended after a register request that succeeded and an
\* update_ens_name that failed
C29_Witness ==
    \E h \in Handled :
        /\ IsSome(h.reply)
        /\ HasCall(h, "POST /api/ens/register", "ok")
        /\ HasCall(h, "update_ens_name", "err")

\* ---- no state across messages (SpecRuns)

\* two handled messages that are the same message and got the same answers
\* from the collaborators
SameMessageSameAnswers(a, b) == a.from = b.from /\ a.body = b.body /\ a.calls = b.calls

\* a CHAIN message of the same sender was handled between a and b
ChainBetween(a, b) ==
    \E i \in 1..Len(outbox) :
        /\ outbox[i].from = b.from /\ outbox[i].cmd.kind = "SwitchChain"
        /\ a.after < i /\ i <= b.after

\* C30: the engine holds no state across messages.  The reply to a message
\* depends on the message and on what the collaborators answer only: the
\* same message with the same answers gets the same reply whatever was
\* handled before it, a CHAIN message included.
C30_NoCrossMessageState ==
    \A a, b \in Ended : SameMessageSameAnswers(a, b) => a.reply = b.reply

\* the same DEPOSIT was answered before and after a CHAIN of the same sender
C30_Witness ==
    \E a, b \in Ended :
        /\ SameMessageSameAnswers(a, b)
        /\ a.cmd.kind = "Deposit" /\ SenderFound(a)
        /\ ChainBetween(a, b)
        /\ IsSome(a.reply) /\ a.reply = b.reply

\* ---- what the handlers write (Spec)

\* handler p takes a step
Acts(p) == pc[p] # "idle" /\ (pc'[p] # pc[p] \/ calls'[p] # calls[p])

\* C31: the engine writes to a repository in JOIN, PIN and SAVE only.  Every
\* step of a handler of any other command (Help, Balance, Send, Deposit,
\* History, Redeem, Swap, Cashout, Buy, Bridge, Contacts, SwitchChain,
\* Unknown) leaves the user, contact and deposit tables as they were.
C31_WritesOnlyInJoinPinSave ==
    [][ \A p \in Procs :
            (Acts(p) /\ cmd[p].kind \notin {"Join", "Pin", "Save"}) => tables' = tables ]_vars

\* a voucher has been redeemed at the backend and the tables are as at the start
C31_Witness ==
    /\ \E h \in Handled :
           /\ h.cmd.kind = "Redeem" /\ IsSome(h.reply)
           /\ HasCall(h, "POST /api/redeem", "ok")
    /\ users \in UserTables /\ contacts = Book /\ deposits = Deposits0
    /\ vouchers = Vouchers0

SupportedToken(token) == to_uppercase(token) \in {TokenTXTC, TokenETH}
SupportedTokensReply == Fixed("Supported tokens: TXTC, ETH\nExample: SEND 10 TXTC swarnim.ttcip.eth")

\* C33: a SEND whose token is neither TXTC nor ETH, compared without regard
\* to case, is answered with the supported-tokens reply before any
\* collaborator is touched, also when the user directory is not configured;
\* a SEND with a supported token in any case is never answered that way.
C33_UnsupportedTokenRejectedFirst ==
    \A h \in Handled :
        h.cmd.kind = "Send" =>
            IF SupportedToken(h.cmd.token)
            THEN h.reply # Some(SupportedTokensReply)
            ELSE /\ h.calls = <<>>
                 /\ IsSome(h.reply) => h.reply = Some(SupportedTokensReply)

C33_Witness ==
    /\ ~user_repo
    /\ \E h \in Ended :
         /\ h.cmd.kind = "Send" /\ ~SupportedToken(h.cmd.token)
         /\ h.reply = Some(SupportedTokensReply)
    /\ \E h \in Ended :
         /\ h.cmd.kind = "Send" /\ h.cmd.token = <<"e","t","h">>
         /\ IsSome(h.reply)

\* C34: the reply "PIN set!" is given only when update_pin was called for
\* the sender and returned success.
C34_PinSetOnlyAfterUpdate ==
    \A h \in Handled :
        h.reply = Some(Fixed("PIN set!")) =>
            \E i \in 1..Len(h.calls) :
                /\ h.calls[i].op = "update_pin" /\ h.calls[i].args[1] = h.from
                /\ h.calls[i].res = "ok"

\* the availability check explicitly answered available = true
SaidAvailable(c) ==
    /\ c.op = "GET /api/ens/check" /\ IsSome(c.resp)
    /\ Unwrap(c.resp).net = "ok" /\ Unwrap(c.resp).status_ok
    /\ IsSome(Unwrap(c.resp).json)
    /\ Unwrap(Unwrap(c.resp).json).available = Some(TRUE)

\* C35: in JOIN with an alias the register request is issued only when the
\* availability check explicitly answered available = true; after a
\* transport error, a non-success status, an unparsable body, available =
\* false or a body without available, no register request is made.
C35_RegisterOnlyWhenAvailable ==
    \A h \in Handled :
        \A i \in 1..Len(h.calls) :
            h.calls[i].op = "POST /api/ens/register" =>
                \E j \in 1..(i - 1) : SaidAvailable(h.calls[j])

RegisteredReply(h) ==
    IsSome(h.reply) /\ Unwrap(h.reply).tmpl = "Registered!\n{}\nWallet: {}\n\nReply DEPOSIT to fund."

\* C36: a "Registered!" reply implies that the alias was stored in the user
\* directory: update_ens_name was called for the sender with the full name
\* and returned success.
C36_RegisteredImpliesStored ==
    \A h \in Handled :
        RegisteredReply(h) =>
            \E i \in 1..Len(h.calls) :
                /\ h.calls[i].op = "update_ens_name"
                /\ h.calls[i].args = << h.from, FullEns(Unwrap(h.cmd.ens_name)) >>
                /\ h.calls[i].res = "ok"

\* the requests that carry an amount
AmountEndpoints ==
    { "POST /api/send-yellow", "POST /api/swap", "POST /api/arc/cashout", "POST /api/buy",
      "POST /api/bridge" }

\* an amount above zero
Positive(a) == a.cls \in {"fin", "inf"} /\ ~a.neg /\ (a.cls = "fin" => a.mant > 0)

\* C37: no downstream request that carries an amount (send-yellow, swap,
\* cashout, buy, bridge) is issued with an amount that is zero or negative.
C37_NoNonPositiveAmountDispatched ==
    \A h \in Handled :
        (Ops(h) \cap AmountEndpoints # {}) => Positive(h.cmd.amount)

\* ---- SAVE, then SEND (SpecContacts)

\* a SAVE that stored a contact, and a later SEND of the same sender whose
\* recipient is the alias of the SAVE exactly as it was typed there
SavedThenSent(s, t) ==
    /\ s.cmd.kind = "Save" /\ HasCall(s, "add_contact", "ok")
    /\ t.cmd.kind = "Send" /\ t.from = s.from
    /\ split_whitespace(t.body)[4] = split_whitespace(s.body)[2]
    /\ "find_by_name" \in Ops(t)

\* C38: SAVE a <phone> followed by SEND n TXTC a of the same sender, with
\* the alias a typed the same way in any letter case: the name passed to
\* add_contact equals the name passed to find_by_name, and the lookup in an
\* exact-match contact book finds the saved contact.
C38_SaveThenSendRoundTrip ==
    \A i, j \in 1..Len(outbox) :
        (i < j /\ SavedThenSent(outbox[i], outbox[j])) =>
            \A a \in 1..Len(outbox[i].calls), f \in 1..Len(outbox[j].calls) :
                (outbox[i].calls[a].op = "add_contact" /\ outbox[j].calls[f].op = "find_by_name") =>
                    /\ outbox[i].calls[a].args[2] = outbox[j].calls[f].args[2]
                    /\ outbox[j].calls[f].res # "none"

\* ---- chain names of BRIDGE (SpecParse)

\* C39: parse_bridge never takes a word of the grammar for a chain name: in
\* every Bridge command a BRIDGE text parses to, neither from_chain nor
\* to_chain is the literal FROM or TO.
C39_NoKeywordAsChain ==
    \A p \in Procs :
        (Parsed(p) /\ KeywordIn(p, BridgeKeywords) /\ cmd[p].kind = "Bridge") =>
            /\ cmd[p].from_chain \notin {KwFROM, KwTO}
            /\ cmd[p].to_chain \notin {KwFROM, KwTO}

\* ---- REDEEM through the voucher contract (SpecVoucher)

\* the lookup found the voucher, not yet redeemed
FoundUnredeemed(c) ==
    /\ c.op = "get_by_code" /\ c.res = "some"
    /\ Unwrap(c.resp).redeemed_by = None

\* C32: redeem_response_with_contracts calls redeemVoucher only after the
\* account of the sender was found, the voucher of the code was found and
\* found not yet redeemed; it marks the voucher redeemed and records the
\* deposit only after the receipt of a confirmed transaction, never after a
\* transaction that failed or is pending.
C32_ContractAfterChecksWritesAfterReceipt ==
    \A h \in Handled :
        \A i \in 1..Len(h.calls) :
            /\ h.calls[i].op = "redeemVoucher" =>
                   /\ Preceded(h, i, "find_by_phone", {"some"})
                   /\ \E j \in 1..(i - 1) : FoundUnredeemed(h.calls[j])
            /\ h.calls[i].op \in {"redeem", "record_deposit"} =>
                   /\ Preceded(h, i, "redeemVoucher", {"sent"})
                   /\ Preceded(h, i, "pending_tx", {"confirmed"})

\* every handled message, ended or not, in the order of the outbox
HandledSeq == outbox \o [p \in 1..2 |-> InFlight(p)]

Submitted(h) == "redeemVoucher" \in Ops(h)
SaidRedeemed(h) == IsSome(h.reply) /\ Unwrap(h.reply).tmpl = VoucherRedeemedTmpl

\* two REDEEM messages for the voucher that starts unredeemed, the second
\* received before the first has ended, and no other message marked it
ConcurrentRedeems(i, j) ==
    /\ i < j
    /\ \A k \in {i, j} :
          HandledSeq[k].cmd.kind = "Redeem" /\ HandledSeq[k].cmd.code = CodeFresh
    /\ i <= Len(outbox) => HandledSeq[j].after < i
    /\ \A k \in (1..Len(HandledSeq)) \ {i, j} : ~HasCall(HandledSeq[k], "redeem", "ok")

\* C40: of two REDEEM messages for the same unredeemed voucher that
\* redeem_response_with_contracts handles concurrently, at most one submits
\* redeemVoucher to the contract and at most one replies that the voucher
\* was redeemed, in every interleaving.
C40_AtMostOneRedeems ==
    \A i, j \in 1..Len(HandledSeq) :
        ConcurrentRedeems(i, j) =>
            /\ ~(Submitted(HandledSeq[i]) /\ Submitted(HandledSeq[j]))
            /\ ~(SaidRedeemed(HandledSeq[i]) /\ SaidRedeemed(HandledSeq[j]))

====
